---- MODULE Spec2Model ----
(***************************************************************************)
(* Verification model of the OpenDisplay BLE firmware-update engines:      *)
(*   - ble/esp32_ota.py : _check_ota_response, perform_esp32_ota           *)
(*   - ble/nrf_dfu.py   : NordicDfuController, perform_dfu_update          *)
(* Bytes are integers 0..255, byte strings are sequences of bytes.         *)
(* A raised exception is modelled by the kind of error it carries.         *)
(***************************************************************************)
EXTENDS Integers, Sequences, FiniteSets, TLC

VARIABLES
    \* ---- response validators applied to an arbitrary response ----
    chk_which,         \* "ota" (_check_ota_response) or "dfu" (_check_response)
    chk_response,      \* the response handed to the validator
    chk_expected,      \* expected_cmd / expected_opcode
    chk_outcome,       \* "idle", "pending", or what the validator did
    \* ---- perform_esp32_ota (one call) ----
    esp_pc,            \* position of the coroutine
    firmware_data,     \* argument firmware_data
    progress_callback, \* TRUE iff a progress callback was supplied
    total_size,        \* local total_size
    offset,            \* local offset
    response,          \* local response
    esp_writes,        \* payloads handed to write_command_with_response, in order
    esp_validated,     \* expected_cmd of every ack that passed _check_ota_response
    esp_progress,      \* arguments of every progress_callback invocation
    esp_raised,        \* "none", or the kind of the exception that left the call
    esp_returned,      \* TRUE once the call has returned True
    \* ---- perform_dfu_update / NordicDfuController (one call) ----
    dfu_pc,            \* statement of perform_dfu_update / the controller method
    cp_pc,             \* position inside _write_control_point
    init_packet,       \* package.init_packet
    firmware,          \* package.firmware
    dfu_callback,      \* TRUE iff a progress callback was supplied
    connected,         \* the BleakClient context is entered
    notify_handler,    \* _notification_handler is registered on the control point
    response_event,    \* self._response_event is set
    response_data,     \* self._response_data
    dfu_response,      \* local response of the controller method
    last_delivered,    \* history: the last notification handed to the handler
                       \* since the last control-point call began, <<>> if none
    dfu_offset,        \* send_firmware: offset
    wd_data,           \* _write_data: data
    wd_offset,         \* _write_data: offset
    gatt_ops,          \* every call made on the client, in order
    dfu_validated,     \* expected_opcode of every response that passed _check_response
    dfu_progress,      \* arguments of every progress_callback invocation
    dfu_error,         \* "none", or the kind of the exception being propagated
    dfu_result,        \* "running", "true", "false" or "raised"
    mac_address,       \* the mac_address argument of perform_dfu_update
    adverts,           \* the advertisements the scan is going to receive
    ble_log,           \* history: the scans and connection attempts made
    dfu_device,        \* the result of the scan, until BleakClient has taken it
    \* ---- parse_dfu_package ----
    zip_entries,       \* the entries of the container, in archive order
    parse_pc,          \* "idle" (not run), "start" or "done"
    parse_result,      \* the DfuPackage returned or the ValueError raised
    \* ---- OpenDisplayBleUpdateEntity.async_install ----
    inst_pc,           \* the await the call is at
    ic_type,           \* _get_ic_type()
    inst_version,      \* the version argument
    latest_version,    \* self._latest_version
    target_version,    \* local target_version
    installed_version, \* self._attr_installed_version
    is_updating,       \* self._is_updating
    in_progress,       \* self._attr_in_progress
    inst_data,         \* the bytes downloaded (dfu_data / fw_data)
    inst_log,          \* the calls made on the outside, in order
    inst_error,        \* "none", or the error the call raised
    second_call,       \* a call made while the first is in progress
    \* ---- scripts/generate_tag_types.py ----
    tags_pc,           \* "ready" for a run of main(), "exit1" after sys.exit(1)
    tag_types_py,      \* the file at TAG_TYPES_PATH, as its lines
    input_file,        \* the definitions the last run loaded
    added,             \* compute_changes of the last run
    removed,
    modified,
    changed,           \* the changed= output of the last run
    main_runs,         \* history: the runs of main() so far
    \* ---- OpenDisplayBleUpdateEntity.async_update ----
    upd_pc,            \* "ready" for a call, "request" while GitHub is awaited
    utcnow,            \* the clock, in hours
    upd_now,           \* local now
    last_checked,      \* self._last_checked, NO_TIME for None
    last_fetch_error,  \* self._last_fetch_error
    checks,            \* history: the requests made to GitHub
    polls,             \* history: the calls of async_update so far
    \* ---- async_setup_entry ----
    setup_pc,          \* "setup", then "listening" or "not_ble"
    is_ble,            \* is_ble_entry(entry_data)
    is_open_display,   \* metadata.is_open_display
    labs_enabled,      \* the state of the Labs feature
    added_entity,      \* added[entry.entry_id], NO_ENTITY when absent
    created,           \* the entities constructed so far
    platform_entities, \* given to async_add_entities and not yet removed
    removal_tasks,     \* _remove_entity tasks created and not yet run
    setup_log,         \* history: additions and removals scheduled
    toggles            \* history: the events of the feature so far

chkVars == <<chk_which, chk_response, chk_expected, chk_outcome>>
espVars == <<esp_pc, firmware_data, progress_callback, total_size, offset,
             response, esp_writes, esp_validated, esp_progress, esp_raised,
             esp_returned>>
dfuVars == <<dfu_pc, cp_pc, init_packet, firmware, dfu_callback, connected,
             notify_handler, response_event, response_data, dfu_response,
             last_delivered, dfu_offset, wd_data, wd_offset, gatt_ops, dfu_validated,
             dfu_progress, dfu_error, dfu_result, adverts, ble_log,
             dfu_device, mac_address>>
parseVars == <<zip_entries, parse_pc, parse_result>>
instVars == <<inst_pc, ic_type, inst_version, latest_version, target_version,
              installed_version, is_updating, in_progress, inst_data, inst_log,
              inst_error, second_call>>
tagVars == <<tags_pc, tag_types_py, input_file, added, removed, modified, changed,
             main_runs>>
updVars == <<upd_pc, utcnow, upd_now, last_checked, last_fetch_error, checks, polls>>
setupVars == <<setup_pc, is_ble, is_open_display, labs_enabled, added_entity, created,
               platform_entities, removal_tasks, setup_log, toggles>>
vars == <<chkVars, espVars, dfuVars, parseVars, instVars, tagVars, updVars, setupVars>>

(***************************************************************************)
(* Bounds of the model                                                     *)
(***************************************************************************)
\* the validators are applied to every response of at most this many bytes
MaxRespLen == 3
\* the ESP32 engine is run on firmware of up to this many full chunks
EspMaxChunks == 5
\* the Nordic engine is run on firmware of up to this many data objects
DfuMaxObjects == 2
\* a scan receives up to this many advertisements before its timeout
MaxAdverts == 2
\* the parser is run on containers of up to this many entries
MaxEntries == 3

(***************************************************************************)
(* Program constants                                                       *)
(***************************************************************************)
ESP32_OTA_CHUNK_SIZE == 200
RESP_SUCCESS == 0
RESP_ERROR == 255
CMD_OTA_START == <<0, 70>>
CMD_OTA_DATA == <<0, 71>>
CMD_OTA_END == <<0, 72>>
\* the expected_cmd literals passed to _check_ota_response
ECHO_START == 70
ECHO_DATA == 71
ECHO_END == 72

\* nrf_dfu.py: DfuOpcode, DfuObjectType, DfuResult
OP_CREATE == 1
OP_SET_PRN == 2
OP_CALCULATE_CRC == 3
OP_EXECUTE == 4
OP_SELECT == 6
OP_RESPONSE == 96
OBJ_COMMAND == 1
OBJ_DATA == 2
RES_SUCCESS == 1
RES_INVALID == 2
RES_NOT_SUPPORTED == 3
RES_INVALID_SIZE == 4
RES_CRC_ERROR == 5
RES_OPERATION_FAILED == 10
DFU_DATA_OBJECT_MAX_SIZE == 4096
\* _write_data: at most this many bytes per data-characteristic packet
DFU_PACKET_SIZE == 200

\* the command echoes, opcodes and result codes of the two protocols
OtaExpected == {ECHO_START, ECHO_DATA, ECHO_END}
DfuOpcodes == {OP_CREATE, OP_SET_PRN, OP_CALCULATE_CRC, OP_EXECUTE, OP_SELECT}
DfuResults == {RES_SUCCESS, RES_INVALID, RES_NOT_SUPPORTED, RES_INVALID_SIZE,
               RES_CRC_ERROR, RES_OPERATION_FAILED}
\* the bytes responses are built from: those the protocols give a meaning,
\* and for the Nordic protocol two that have none (0 and 7)
OtaBytes == {RESP_SUCCESS, RESP_ERROR, 1} \cup OtaExpected
DfuBytes == {OP_RESPONSE, 0, 7} \cup DfuOpcodes \cup DfuResults

(***************************************************************************)
(* Helpers                                                                 *)
(***************************************************************************)
Min(a, b) == IF a <= b THEN a ELSE b

\* Python slice data[lo : hi] on a sequence (0-based, hi exclusive, clipped)
Slice(data, lo, hi) == SubSeq(data, lo + 1, Min(hi, Len(data)))

\* struct.pack("<I", n) for 0 <= n < 2^32
PackU32LE(n) ==
    <<n % 256, (n \div 256) % 256, (n \div 65536) % 256, (n \div 16777216) % 256>>

\* all byte strings over the alphabet B of length at most n
ByteStrings(B, n) == UNION {[1..k -> B] : k \in 0..n}

\* the firmware payload of length n used as input: byte i is a function of i,
\* so that a skipped, repeated or reordered slice changes the content
FirmwareOfLen(n) == [i \in 1..n |-> (i - 1) % 251]

RECURSIVE SumLen(_)
SumLen(s) == IF s = <<>> THEN 0 ELSE Len(Head(s)) + SumLen(Tail(s))

(***************************************************************************)
(* _check_ota_response(response, expected_cmd)                             *)
(* returns "ok" when it returns normally, else the RuntimeError it raises: *)
(*   "too_short"  - OTA response too short                                 *)
(*   "rejected"   - Device rejected OTA command (not supported ...)        *)
(*   "unexpected" - Unexpected OTA response                                *)
(***************************************************************************)
\* variant: the status/echo test is made before the rejection test
CheckOtaResponse_MismatchFirst(resp, expected_cmd) ==
    IF Len(resp) < 2 THEN "too_short"
    ELSE IF resp[1] # RESP_SUCCESS \/ resp[2] # expected_cmd THEN
            IF resp[1] = RESP_ERROR /\ resp[2] = expected_cmd THEN "rejected"
            ELSE "unexpected"
    ELSE "ok"

\* variant: a response is refused only when both status and echo are wrong
CheckOtaResponse_AndForOr(resp, expected_cmd) ==
    IF Len(resp) < 2 THEN "too_short"
    ELSE IF resp[1] = RESP_ERROR THEN "rejected"
    ELSE IF resp[1] # RESP_SUCCESS /\ resp[2] # expected_cmd THEN "unexpected"
    ELSE "ok"

CheckOtaResponse(resp, expected_cmd) ==
    IF Len(resp) < 2 THEN "too_short"
    ELSE LET status == resp[1]
             cmd_echo == resp[2]
         IN  IF status = RESP_ERROR THEN "rejected"
             ELSE IF status # RESP_SUCCESS \/ cmd_echo # expected_cmd
                  THEN "unexpected"
                  ELSE "ok"

(***************************************************************************)
(* perform_esp32_ota(connection, firmware_data, progress_callback)         *)
(* Every await of connection.write_command_with_response is two steps: the *)
(* command is written, then the response arrives or the connection layer   *)
(* raises its timeout error.                                               *)
(***************************************************************************)
\* firmware lengths the engine is run on: the empty payload and the lengths
\* around every chunk boundary up to EspMaxChunks full chunks
EspFirmwareLens ==
    {0} \cup {k * ESP32_OTA_CHUNK_SIZE + d :
                 k \in 0..(EspMaxChunks - 1), d \in {1, 199, 200}}

\* responses the device may give to a command of the engine
EspDeviceResponses ==
    {r \in ByteStrings({RESP_SUCCESS, RESP_ERROR, 1, ECHO_START, ECHO_DATA, ECHO_END}, 2) :
        /\ Len(r) >= 1 => r[1] \in {RESP_SUCCESS, RESP_ERROR, 1}
        /\ Len(r) >= 2 => r[2] \in {ECHO_START, ECHO_DATA, ECHO_END}}

EspIdle ==
    /\ esp_pc = "idle"
    /\ firmware_data = <<>>
    /\ progress_callback = FALSE
    /\ total_size = 0
    /\ offset = 0
    /\ response = <<>>
    /\ esp_writes = <<>>
    /\ esp_validated = <<>>
    /\ esp_progress = <<>>
    /\ esp_raised = "none"
    /\ esp_returned = FALSE

ChkIdle ==
    /\ chk_which = "none"
    /\ chk_response = <<>>
    /\ chk_expected = 0
    /\ chk_outcome = "idle"

IC_TYPE_NRF52840 == 1
IC_TYPE_ESP32_S3 == 2
IC_TYPE_ESP32_C3 == 3
IC_TYPE_ESP32_C6 == 4
IC_NONE == 0 - 1

InstIdle ==
    /\ inst_pc = "idle"
    /\ ic_type = IC_NONE
    /\ inst_version = "None"
    /\ latest_version = "None"
    /\ target_version = "None"
    /\ installed_version = "None"
    /\ is_updating = FALSE
    /\ in_progress = "False"
    /\ inst_data = <<>>
    /\ inst_log = <<>>
    /\ inst_error = "none"
    /\ second_call = "none"

TagsIdle ==
    /\ tags_pc = "idle"
    /\ tag_types_py = <<>>
    /\ input_file = <<>>
    /\ added = <<>>
    /\ removed = <<>>
    /\ modified = <<>>
    /\ changed = FALSE
    /\ main_runs = 0

NO_TIME == 0 - 1
NO_ENTITY == 0
UpdIdle ==
    /\ upd_pc = "idle"
    /\ utcnow = 0
    /\ upd_now = 0
    /\ last_checked = NO_TIME
    /\ last_fetch_error = "None"
    /\ checks = <<>>
    /\ polls = 0
SetupIdle ==
    /\ setup_pc = "idle"
    /\ is_ble = FALSE
    /\ is_open_display = FALSE
    /\ labs_enabled = FALSE
    /\ added_entity = NO_ENTITY
    /\ created = 0
    /\ platform_entities = {}
    /\ removal_tasks = {}
    /\ setup_log = <<>>
    /\ toggles = 0
ParseIdle ==
    /\ zip_entries = <<>>
    /\ parse_pc = "idle"
    /\ parse_result = [outcome |-> "pending", init_packet |-> <<>>, firmware |-> <<>>]

DfuIdle ==
    /\ last_delivered = <<>>
    /\ dfu_pc = "idle"
    /\ cp_pc = "idle"
    /\ init_packet = <<>>
    /\ firmware = <<>>
    /\ dfu_callback = FALSE
    /\ connected = FALSE
    /\ notify_handler = FALSE
    /\ response_event = FALSE
    /\ response_data = <<>>
    /\ dfu_response = <<>>
    /\ dfu_offset = 0
    /\ wd_data = <<>>
    /\ wd_offset = 0
    /\ gatt_ops = <<>>
    /\ dfu_validated = <<>>
    /\ dfu_progress = <<>>
    /\ dfu_error = "none"
    /\ dfu_result = "idle"
    /\ adverts = <<>>
    /\ ble_log = <<>>
    /\ dfu_device = [found |-> FALSE,
                     adv |-> [service_uuids |-> <<>>, local_name |-> <<>>],
                     address |-> <<>>]
    /\ mac_address = <<>>

EspInit ==
    /\ UpdIdle
    /\ SetupIdle
    /\ TagsIdle
    /\ InstIdle
    /\ ParseIdle
    /\ ChkIdle
    /\ DfuIdle
    /\ esp_pc = "start"
    /\ firmware_data \in {FirmwareOfLen(n) : n \in EspFirmwareLens}
    /\ progress_callback \in BOOLEAN
    /\ total_size = 0
    /\ offset = 0
    /\ response = <<>>
    /\ esp_writes = <<>>
    /\ esp_validated = <<>>
    /\ esp_progress = <<>>
    /\ esp_raised = "none"
    /\ esp_returned = FALSE

\* an exception leaves the call: nothing after the raising statement runs
EspRaise(kind) ==
    /\ esp_pc' = "raised"
    /\ esp_raised' = kind
    /\ UNCHANGED <<offset, esp_validated, esp_progress, esp_returned>>

\* variant: the slice is one byte too long
EspChunk_OffByOne == Slice(firmware_data, offset, offset + ESP32_OTA_CHUNK_SIZE + 1)

\* variant: a chunk of the right length, always taken from the start
EspChunk_FromStart ==
    Slice(firmware_data, 0,
          Min(ESP32_OTA_CHUNK_SIZE, Len(firmware_data) - offset))

\* the chunk of the current loop iteration
EspChunk == Slice(firmware_data, offset, offset + ESP32_OTA_CHUNK_SIZE)

\* lines 95-106: total_size, START payload, write
EspWriteStart ==
    /\ esp_pc = "start"
    /\ total_size' = Len(firmware_data)
    /\ esp_writes' = Append(esp_writes, CMD_OTA_START \o PackU32LE(total_size'))
    /\ esp_pc' = "await_start"
    /\ UNCHANGED <<setupVars, updVars, tagVars, instVars, parseVars, chkVars, dfuVars, firmware_data, progress_callback, offset, response,
                   esp_validated, esp_progress, esp_raised, esp_returned>>

\* lines 104-111: START response, validation, offset = 0
EspAckStart(r) ==
    /\ esp_pc = "await_start"
    /\ response' = r
    /\ IF CheckOtaResponse(r, ECHO_START) = "ok"
       THEN /\ esp_validated' = Append(esp_validated, ECHO_START)
            /\ offset' = 0
            /\ esp_pc' = "loop"
            /\ UNCHANGED <<esp_progress, esp_raised, esp_returned>>
       ELSE EspRaise(CheckOtaResponse(r, ECHO_START))
    /\ UNCHANGED <<setupVars, updVars, tagVars, instVars, parseVars, chkVars, dfuVars, firmware_data, progress_callback, total_size, esp_writes>>

\* lines 112-117: loop test true, next chunk, DATA write
EspWriteData ==
    /\ esp_pc = "loop"
    /\ offset < total_size
    /\ esp_writes' = Append(esp_writes, CMD_OTA_DATA \o EspChunk)
    /\ esp_pc' = "await_data"
    /\ UNCHANGED <<setupVars, updVars, tagVars, instVars, parseVars, chkVars, dfuVars, firmware_data, progress_callback, total_size, offset,
                   response, esp_validated, esp_progress, esp_raised, esp_returned>>

\* variant: the callback is invoked before the offset is advanced
EspAckData_StaleProgress(r) ==
    /\ esp_pc = "await_data"
    /\ response' = r
    /\ IF CheckOtaResponse(r, ECHO_DATA) = "ok"
       THEN /\ esp_validated' = Append(esp_validated, ECHO_DATA)
            /\ offset' = offset + Len(EspChunk)
            /\ esp_progress' = IF progress_callback
                               THEN Append(esp_progress, <<offset, total_size>>)
                               ELSE esp_progress
            /\ esp_pc' = "loop"
            /\ UNCHANGED <<esp_raised, esp_returned>>
       ELSE EspRaise(CheckOtaResponse(r, ECHO_DATA))
    /\ UNCHANGED <<setupVars, updVars, tagVars, instVars, parseVars, chkVars, dfuVars, firmware_data, progress_callback, total_size,
                   esp_writes>>

\* variant: a chunk whose ack fails validation is sent again
EspAckData_Retry(r) ==
    /\ esp_pc = "await_data"
    /\ response' = r
    /\ IF CheckOtaResponse(r, ECHO_DATA) = "ok"
       THEN /\ esp_validated' = Append(esp_validated, ECHO_DATA)
            /\ offset' = offset + Len(EspChunk)
            /\ esp_progress' = IF progress_callback
                               THEN Append(esp_progress, <<offset', total_size>>)
                               ELSE esp_progress
       ELSE UNCHANGED <<esp_validated, offset, esp_progress>>
    /\ esp_pc' = "loop"
    /\ UNCHANGED <<esp_raised, esp_returned>>
    /\ UNCHANGED <<setupVars, updVars, tagVars, instVars, parseVars, chkVars, dfuVars, firmware_data, progress_callback, total_size,
                   esp_writes>>

\* lines 115-122: DATA response, validation, offset advance, progress callback
EspAckData(r) ==
    /\ esp_pc = "await_data"
    /\ response' = r
    /\ IF CheckOtaResponse(r, ECHO_DATA) = "ok"
       THEN /\ esp_validated' = Append(esp_validated, ECHO_DATA)
            /\ offset' = offset + Len(EspChunk)
            /\ esp_progress' = IF progress_callback
                               THEN Append(esp_progress, <<offset', total_size>>)
                               ELSE esp_progress
            /\ esp_pc' = "loop"
            /\ UNCHANGED <<esp_raised, esp_returned>>
       ELSE EspRaise(CheckOtaResponse(r, ECHO_DATA))
    /\ UNCHANGED <<setupVars, updVars, tagVars, instVars, parseVars, chkVars, dfuVars, firmware_data, progress_callback, total_size, esp_writes>>

\* variant: END is written without the loop having run to its end
EspWriteEnd_Early ==
    /\ esp_pc = "loop"
    /\ esp_writes' = Append(esp_writes, CMD_OTA_END)
    /\ esp_pc' = "await_end"
    /\ UNCHANGED <<setupVars, updVars, tagVars, instVars, parseVars, chkVars, dfuVars, firmware_data, progress_callback, total_size,
                   offset, response, esp_validated, esp_progress, esp_raised,
                   esp_returned>>

\* lines 112, 135-137: loop test false, END write
EspWriteEnd ==
    /\ esp_pc = "loop"
    /\ ~(offset < total_size)
    /\ esp_writes' = Append(esp_writes, CMD_OTA_END)
    /\ esp_pc' = "await_end"
    /\ UNCHANGED <<setupVars, updVars, tagVars, instVars, parseVars, chkVars, dfuVars, firmware_data, progress_callback, total_size, offset,
                   response, esp_validated, esp_progress, esp_raised, esp_returned>>

\* lines 135-143: END response, validation, return True
EspAckEnd(r) ==
    /\ esp_pc = "await_end"
    /\ response' = r
    /\ IF CheckOtaResponse(r, ECHO_END) = "ok"
       THEN /\ esp_validated' = Append(esp_validated, ECHO_END)
            /\ esp_pc' = "done"
            /\ esp_returned' = TRUE
            /\ UNCHANGED <<offset, esp_progress, esp_raised>>
       ELSE EspRaise(CheckOtaResponse(r, ECHO_END))
    /\ UNCHANGED <<setupVars, updVars, tagVars, instVars, parseVars, chkVars, dfuVars, firmware_data, progress_callback, total_size, esp_writes>>

\* write_command_with_response raises its timeout error instead of returning
EspTimeout ==
    /\ esp_pc \in {"await_start", "await_data", "await_end"}
    /\ EspRaise("timeout")
    /\ UNCHANGED <<setupVars, updVars, tagVars, instVars, parseVars, chkVars, dfuVars, firmware_data, progress_callback, total_size, response,
                   esp_writes>>

EspNext ==
    \/ EspWriteStart
    \/ \E r \in EspDeviceResponses : EspAckStart(r)
    \/ EspWriteData
    \/ \E r \in EspDeviceResponses : EspAckData(r)
    \/ EspWriteEnd
    \/ \E r \in EspDeviceResponses : EspAckEnd(r)
    \/ EspTimeout

SpecEsp == EspInit /\ [][EspNext]_vars

(***************************************************************************)
(* NordicDfuController._check_response(response, expected_opcode)          *)
(* returns "ok" when it returns normally, else the BleakError it raises:   *)
(*   "too_short"           - DFU response too short                        *)
(*   "bad_response_opcode" - Expected response opcode 0x60                 *)
(*   "wrong_opcode"        - Response for wrong opcode                     *)
(*   "failed"              - DFU operation failed with result code         *)
(***************************************************************************)
\* variant: the length test lets a 2-byte response through, and reading the
\* result code then fails with an IndexError
CheckDfuResponse_Len2(resp, expected_opcode) ==
    IF Len(resp) < 2 THEN "too_short"
    ELSE IF resp[1] # OP_RESPONSE THEN "bad_response_opcode"
    ELSE IF resp[2] # expected_opcode THEN "wrong_opcode"
    ELSE IF Len(resp) < 3 THEN "index_error"
    ELSE IF resp[3] # RES_SUCCESS THEN "failed"
    ELSE "ok"

\* variant: the result code is not compared
CheckDfuResponse_NoResult(resp, expected_opcode) ==
    IF Len(resp) < 3 THEN "too_short"
    ELSE IF resp[1] # OP_RESPONSE THEN "bad_response_opcode"
    ELSE IF resp[2] # expected_opcode THEN "wrong_opcode"
    ELSE "ok"

\* variant: the echoed opcode is not compared
CheckDfuResponse_NoEcho(resp, expected_opcode) ==
    IF Len(resp) < 3 THEN "too_short"
    ELSE IF resp[1] # OP_RESPONSE THEN "bad_response_opcode"
    ELSE IF resp[3] # RES_SUCCESS THEN "failed"
    ELSE "ok"

CheckDfuResponse(resp, expected_opcode) ==
    IF Len(resp) < 3 THEN "too_short"
    ELSE IF resp[1] # OP_RESPONSE THEN "bad_response_opcode"
    ELSE IF resp[2] # expected_opcode THEN "wrong_opcode"
    ELSE IF resp[3] # RES_SUCCESS THEN "failed"
    ELSE "ok"


(***************************************************************************)
(* parse_dfu_package(zip_data)                                             *)
(* The container is the list of its entries in archive order, each a name  *)
(* (a sequence of characters) and its content.  namelist() yields the      *)
(* names in that order, duplicates included; read(name) yields the content *)
(* of the last entry of that name.  A variable that is still None is       *)
(* [present |-> FALSE]; `not x` is true of None and of b"".                *)
(***************************************************************************)
DAT_SUFFIX == <<".", "d", "a", "t">>
BIN_SUFFIX == <<".", "b", "i", "n">>

ZipNames ==
    {<<"a">> \o DAT_SUFFIX, <<"b">> \o DAT_SUFFIX,
     <<"a">> \o BIN_SUFFIX, <<"b">> \o BIN_SUFFIX,
     <<"m", ".", "j", "s", "o", "n">>}
ZipContents == {<<>>, <<1>>, <<2, 3>>}
ZipEntries == [name : ZipNames, content : ZipContents]
\* the containers the parser is run on
ZipContainers == UNION {[1..k -> ZipEntries] : k \in 0..MaxEntries}

\* str.endswith
EndsWith(s, suffix) ==
    /\ Len(s) >= Len(suffix)
    /\ SubSeq(s, Len(s) - Len(suffix) + 1, Len(s)) = suffix

\* ZipFile.read(name)
ZipRead(zf, name) ==
    LET last == CHOOSE i \in 1..Len(zf) :
                    /\ zf[i].name = name
                    /\ \A j \in (i + 1)..Len(zf) : zf[j].name # name
    IN  zf[last].content

NoFile == [present |-> FALSE, bytes |-> <<>>]
Falsy(x) == ~x.present \/ x.bytes = <<>>

\* variant: an entry is taken only while none of its kind has been taken
RECURSIVE ParseLoop_FirstWins(_, _, _, _)
ParseLoop_FirstWins(zf, i, dat_file, bin_file) ==
    IF i > Len(zf)
    THEN <<dat_file, bin_file>>
    ELSE IF EndsWith(zf[i].name, DAT_SUFFIX)
    THEN ParseLoop_FirstWins(zf, i + 1,
                   IF dat_file.present THEN dat_file
                   ELSE [present |-> TRUE, bytes |-> zf[i].content], bin_file)
    ELSE IF EndsWith(zf[i].name, BIN_SUFFIX)
    THEN ParseLoop_FirstWins(zf, i + 1, dat_file,
                   IF bin_file.present THEN bin_file
                   ELSE [present |-> TRUE, bytes |-> zf[i].content])
    ELSE ParseLoop_FirstWins(zf, i + 1, dat_file, bin_file)

\* the for loop over zf.namelist() from entry i on; the pair of dat_file
\* and bin_file it ends with
RECURSIVE ParseLoop(_, _, _, _)
ParseLoop(zf, i, dat_file, bin_file) ==
    IF i > Len(zf)
    THEN <<dat_file, bin_file>>
    ELSE IF EndsWith(zf[i].name, DAT_SUFFIX)
    THEN ParseLoop(zf, i + 1,
                   [present |-> TRUE, bytes |-> ZipRead(zf, zf[i].name)], bin_file)
    ELSE IF EndsWith(zf[i].name, BIN_SUFFIX)
    THEN ParseLoop(zf, i + 1, dat_file,
                   [present |-> TRUE, bytes |-> ZipRead(zf, zf[i].name)])
    ELSE ParseLoop(zf, i + 1, dat_file, bin_file)

\* the DfuPackage returned, or the ValueError raised
parse_dfu_package(zf) ==
    LET files == ParseLoop(zf, 1, NoFile, NoFile)
        dat_file == files[1]
        bin_file == files[2]
    IN  IF Falsy(dat_file) \/ Falsy(bin_file)
        THEN [outcome |-> "ValueError", init_packet |-> <<>>, firmware |-> <<>>]
        ELSE [outcome |-> "DfuPackage", init_packet |-> dat_file.bytes,
              firmware |-> bin_file.bytes]

ParsePending == [outcome |-> "pending", init_packet |-> <<>>, firmware |-> <<>>]

ParseInit ==
    /\ UpdIdle
    /\ SetupIdle
    /\ TagsIdle
    /\ InstIdle
    /\ ChkIdle
    /\ EspIdle
    /\ DfuIdle
    /\ parse_pc = "start"
    /\ zip_entries \in ZipContainers
    /\ parse_result = ParsePending

\* one call of parse_dfu_package
ParseDfuPackage ==
    /\ parse_pc = "start"
    /\ parse_result' = parse_dfu_package(zip_entries)
    /\ parse_pc' = "done"
    /\ UNCHANGED <<setupVars, updVars, tagVars, instVars, chkVars, espVars, dfuVars, zip_entries>>

ParseNext == ParseDfuPackage

SpecParse == ParseInit /\ [][ParseNext]_vars

(***************************************************************************)
(* Bootloader discovery: _match_dfu_device and find_device_by_filter.      *)
(* An advertisement carries service_uuids and local_name, each None        *)
(* (written <<>>) or a value (written <<value>>); a name is a sequence of  *)
(* characters.                                                             *)
(***************************************************************************)
DFU_SERVICE_UUID == "0000fe59-0000-1000-8000-00805f9b34fb"
BATTERY_SERVICE_UUID == "0000180f-0000-1000-8000-00805f9b34fb"

UpperCase == <<"A", "B", "C", "D", "E", "F", "G", "H", "I", "J", "K", "L", "M",
               "N", "O", "P", "Q", "R", "S", "T", "U", "V", "W", "X", "Y", "Z">>
LowerCase == <<"a", "b", "c", "d", "e", "f", "g", "h", "i", "j", "k", "l", "m",
               "n", "o", "p", "q", "r", "s", "t", "u", "v", "w", "x", "y", "z">>
\* str.lower
ToLower(s) ==
    [i \in 1..Len(s) |->
        IF \E k \in 1..26 : UpperCase[k] = s[i]
        THEN LowerCase[CHOOSE k \in 1..26 : UpperCase[k] = s[i]]
        ELSE s[i]]
\* sub in s
Contains(s, sub) ==
    \E i \in 0..(Len(s) - Len(sub)) : SubSeq(s, i + 1, i + Len(sub)) = sub

AdvertNames ==
    {<<>>,
     <<<<>>>>,
     <<<<"D", "f", "u", "T", "a", "r", "g">>>>,
     <<<<"m", "y", "D", "F", "U">>>>,
     <<<<"O", "D", "1">>>>}
AdvertUuids ==
    {<<>>,
     <<<<>>>>,
     <<<<BATTERY_SERVICE_UUID>>>>,
     <<<<BATTERY_SERVICE_UUID, DFU_SERVICE_UUID>>>>}
Adverts == [service_uuids : AdvertUuids, local_name : AdvertNames]
\* the advertisements a scan may receive before its timeout, in order
AdvertLists == UNION {[1..k -> Adverts] : k \in 0..MaxAdverts}

\* the address of the device that sends the i-th advertisement
DeviceAddress(i) == <<"C0:FF:EE:00:00", i>>

\* variant: the local name is compared without lower-casing
MatchDfuDevice_CaseSensitive(device, adv_data) ==
    LET uuids == IF adv_data.service_uuids = <<>> THEN <<>>
                 ELSE adv_data.service_uuids[1]
    IN  IF \E i \in 1..Len(uuids) : uuids[i] = DFU_SERVICE_UUID
        THEN TRUE
        ELSE IF /\ adv_data.local_name # <<>>
                /\ adv_data.local_name[1] # <<>>
                /\ Contains(adv_data.local_name[1], <<"d", "f", "u">>)
        THEN TRUE
        ELSE FALSE

\* variant: only the device the update was asked for is accepted
MatchDfuDevice_OwnAddress(device, adv_data) ==
    LET uuids == IF adv_data.service_uuids = <<>> THEN <<>>
                 ELSE adv_data.service_uuids[1]
    IN  IF device # mac_address
        THEN FALSE
        ELSE IF \E i \in 1..Len(uuids) : uuids[i] = DFU_SERVICE_UUID
        THEN TRUE
        ELSE IF /\ adv_data.local_name # <<>>
                /\ adv_data.local_name[1] # <<>>
                /\ Contains(ToLower(adv_data.local_name[1]), <<"d", "f", "u">>)
        THEN TRUE
        ELSE FALSE

\* _match_dfu_device(_device, adv_data); the device is given by its address
MatchDfuDevice(device, adv_data) ==
    LET uuids == IF adv_data.service_uuids = <<>> THEN <<>>
                 ELSE adv_data.service_uuids[1]
    IN  IF \E i \in 1..Len(uuids) : uuids[i] = DFU_SERVICE_UUID
        THEN TRUE
        ELSE IF /\ adv_data.local_name # <<>>
                /\ adv_data.local_name[1] # <<>>
                /\ Contains(ToLower(adv_data.local_name[1]), <<"d", "f", "u">>)
        THEN TRUE
        ELSE FALSE

NoDevice == [found |-> FALSE, adv |-> [service_uuids |-> <<>>, local_name |-> <<>>],
             address |-> <<>>]
\* find_device_by_filter: the device of the first advertisement the filter
\* accepts, None when the timeout comes first
FindDeviceByFilter(advs) ==
    LET accepted == {i \in 1..Len(advs) : MatchDfuDevice(DeviceAddress(i), advs[i])}
        first == CHOOSE i \in accepted : \A j \in accepted : i <= j
    IN  IF accepted # {}
        THEN [found |-> TRUE, adv |-> advs[first], address |-> DeviceAddress(first)]
        ELSE NoDevice

(***************************************************************************)
(* NordicDfuController and perform_dfu_update.                             *)
(*                                                                         *)
(* dfu_pc names the statement the call is at:                              *)
(*   parse, scan, connect, start_notify,                                   *)
(*   set_prn, select_command, create_command, data_command, crc_command,   *)
(*   execute_command, select_data, create_data, data_data, crc_data,       *)
(*   execute_data, stop, disconnect, exited                                *)
(* and cp_pc the position inside _write_control_point:                     *)
(*   idle (not in it), writing (awaiting write_gatt_char), waiting         *)
(*   (awaiting the event, 10 s).                                           *)
(***************************************************************************)
DfuInitLens == {1, DFU_PACKET_SIZE, DFU_PACKET_SIZE + 1,
                DFU_DATA_OBJECT_MAX_SIZE + 1}

DfuFirmwareLens ==
    {k * DFU_DATA_OBJECT_MAX_SIZE + d : k \in 0..(DfuMaxObjects - 1), d \in {1, 904}}
    \cup {DFU_DATA_OBJECT_MAX_SIZE}

\* the packages the engine is run on
DfuPackages ==
    {<<FirmwareOfLen(i), FirmwareOfLen(1)>> : i \in DfuInitLens}
    \cup {<<FirmwareOfLen(1), FirmwareOfLen(n)>> : n \in DfuFirmwareLens}

\* notifications the bootloader may send on the control point
DfuNotifications ==
    {<<OP_RESPONSE, op, RES_SUCCESS>> : op \in DfuOpcodes}
    \cup {<<OP_RESPONSE, OP_CALCULATE_CRC, RES_CRC_ERROR>>,
          <<OP_RESPONSE, OP_CREATE, RES_INVALID_SIZE>>,
          <<OP_RESPONSE, OP_EXECUTE>>,
          <<0, OP_SELECT, RES_SUCCESS>>}

\* the containers the engine is run on: the packages, each as a .dat and a
\* .bin entry, one with a manifest in front, and containers that lack a part
DfuContainers ==
    {<<[name |-> <<"a">> \o DAT_SUFFIX, content |-> pkg[1]],
       [name |-> <<"a">> \o BIN_SUFFIX, content |-> pkg[2]]>> : pkg \in DfuPackages}
    \cup {<<[name |-> <<"m", ".", "j", "s", "o", "n">>, content |-> <<1>>],
            [name |-> <<"a">> \o BIN_SUFFIX, content |-> <<2, 3>>],
            [name |-> <<"a">> \o DAT_SUFFIX, content |-> <<1>>]>>,
          <<>>,
          <<[name |-> <<"m", ".", "j", "s", "o", "n">>, content |-> <<1>>]>>,
          <<[name |-> <<"a">> \o DAT_SUFFIX, content |-> <<1>>]>>,
          <<[name |-> <<"a">> \o BIN_SUFFIX, content |-> <<2, 3>>]>>,
          <<[name |-> <<"a">> \o DAT_SUFFIX, content |-> <<1>>],
            [name |-> <<"a">> \o BIN_SUFFIX, content |-> <<>>]>>}

\* the runs of the engine: every container with no advertisement and with
\* one of a bootloader, and every list of advertisements with one package,
\* asked for the first device and for the second
DfuRuns ==
    {<<zf, advs, DeviceAddress(1)>> :
         zf \in DfuContainers,
         advs \in {<<>>, <<[service_uuids |-> <<<<DFU_SERVICE_UUID>>>>,
                             local_name |-> <<>>]>>}}
    \cup {<<<<[name |-> <<"a">> \o DAT_SUFFIX, content |-> <<1>>],
               [name |-> <<"a">> \o BIN_SUFFIX, content |-> <<2, 3>>]>>, advs,
             DeviceAddress(mac)>> :
              advs \in AdvertLists, mac \in 1..2}

DfuInit ==
    /\ UpdIdle
    /\ SetupIdle
    /\ TagsIdle
    /\ InstIdle
    /\ ChkIdle
    /\ EspIdle
    /\ parse_pc = "idle"
    /\ parse_result = ParsePending
    /\ \E run \in DfuRuns :
           zip_entries = run[1] /\ adverts = run[2] /\ mac_address = run[3]
    /\ ble_log = <<>>
    /\ dfu_device = NoDevice
    /\ dfu_pc = "parse"
    /\ cp_pc = "idle"
    /\ init_packet = <<>>
    /\ firmware = <<>>
    /\ dfu_callback \in BOOLEAN
    /\ connected = FALSE
    /\ notify_handler = FALSE
    /\ response_event = FALSE
    /\ response_data = <<>>
    /\ dfu_response = <<>>
    /\ last_delivered = <<>>
    /\ dfu_offset = 0
    /\ wd_data = <<>>
    /\ wd_offset = 0
    /\ gatt_ops = <<>>
    /\ dfu_validated = <<>>
    /\ dfu_progress = <<>>
    /\ dfu_error = "none"
    /\ dfu_result = "running"

\* the statements that are a _write_control_point call
DfuCpSteps == {"set_prn", "select_command", "create_command", "crc_command",
               "execute_command", "select_data", "create_data", "crc_data",
               "execute_data"}

\* send_firmware: object_size of the current iteration
\* variant: every object is declared with the maximum size
DfuObjectSize_Fixed == DFU_DATA_OBJECT_MAX_SIZE

DfuObjectSize == Min(DFU_DATA_OBJECT_MAX_SIZE, Len(firmware) - dfu_offset)

\* variant: the init packet's object is capped like a data object
DfuCommand_InitCapped(step) ==
    CASE step = "set_prn" -> <<OP_SET_PRN, 0, 0>>
      [] step = "select_command" -> <<OP_SELECT, OBJ_COMMAND>>
      [] step = "create_command" ->
            <<OP_CREATE, OBJ_COMMAND>>
                \o PackU32LE(Min(DFU_DATA_OBJECT_MAX_SIZE, Len(init_packet)))
      [] step \in {"crc_command", "crc_data"} -> <<OP_CALCULATE_CRC>>
      [] step \in {"execute_command", "execute_data"} -> <<OP_EXECUTE>>
      [] step = "select_data" -> <<OP_SELECT, OBJ_DATA>>
      [] step = "create_data" -> <<OP_CREATE, OBJ_DATA>> \o PackU32LE(DfuObjectSize)

\* the command each statement writes to the control point (struct.pack)
DfuCommand(step) ==
    CASE step = "set_prn" -> <<OP_SET_PRN, 0, 0>>
      [] step = "select_command" -> <<OP_SELECT, OBJ_COMMAND>>
      [] step = "create_command" ->
            <<OP_CREATE, OBJ_COMMAND>> \o PackU32LE(Len(init_packet))
      [] step \in {"crc_command", "crc_data"} -> <<OP_CALCULATE_CRC>>
      [] step \in {"execute_command", "execute_data"} -> <<OP_EXECUTE>>
      [] step = "select_data" -> <<OP_SELECT, OBJ_DATA>>
      [] step = "create_data" -> <<OP_CREATE, OBJ_DATA>> \o PackU32LE(DfuObjectSize)

\* variant: the response to CALCULATE_CRC of a data object is validated
\* against the opcode of the CREATE before it
DfuExpected_CrcAsCreate(step) ==
    CASE step = "set_prn" -> OP_SET_PRN
      [] step \in {"select_command", "select_data"} -> OP_SELECT
      [] step \in {"create_command", "create_data", "crc_data"} -> OP_CREATE
      [] step = "crc_command" -> OP_CALCULATE_CRC
      [] step \in {"execute_command", "execute_data"} -> OP_EXECUTE

\* the expected_opcode each statement passes to _check_response
DfuExpected(step) ==
    CASE step = "set_prn" -> OP_SET_PRN
      [] step \in {"select_command", "select_data"} -> OP_SELECT
      [] step \in {"create_command", "create_data"} -> OP_CREATE
      [] step \in {"crc_command", "crc_data"} -> OP_CALCULATE_CRC
      [] step \in {"execute_command", "execute_data"} -> OP_EXECUTE

\* an exception inside the try block: except logs and re-raises, finally runs stop()
DfuRaise(kind) ==
    /\ dfu_error' = kind
    /\ dfu_pc' = "stop"
    /\ cp_pc' = "idle"

\* variant: the package is not validated before the scan
DfuParse_Unchecked ==
    /\ dfu_pc = "parse"
    /\ LET package == parse_dfu_package(zip_entries)
       IN  /\ init_packet' = package.init_packet
           /\ firmware' = package.firmware
           /\ dfu_pc' = "scan"
           /\ UNCHANGED <<dfu_error, dfu_result>>
    /\ UNCHANGED <<setupVars, updVars, tagVars, instVars, parseVars, chkVars, espVars, mac_address, last_delivered, adverts,
                   ble_log, dfu_device, cp_pc, dfu_callback, connected,
                   notify_handler, response_event, response_data, dfu_response,
                   dfu_offset, wd_data, wd_offset, gatt_ops, dfu_validated,
                   dfu_progress>>

\* package = parse_dfu_package(dfu_package_data): the ValueError leaves the call
DfuParse ==
    /\ dfu_pc = "parse"
    /\ LET package == parse_dfu_package(zip_entries)
       IN  IF package.outcome = "DfuPackage"
           THEN /\ init_packet' = package.init_packet
                /\ firmware' = package.firmware
                /\ dfu_pc' = "scan"
                /\ UNCHANGED <<dfu_error, dfu_result>>
           ELSE /\ dfu_error' = "ValueError"
                /\ dfu_result' = "raised"
                /\ dfu_pc' = "exited"
                /\ UNCHANGED <<init_packet, firmware>>
    /\ UNCHANGED <<setupVars, updVars, tagVars, instVars, parseVars, chkVars, espVars, mac_address, last_delivered, adverts, ble_log, dfu_device,
                   cp_pc, dfu_callback, connected, notify_handler, response_event,
                   response_data, dfu_response, dfu_offset, wd_data, wd_offset,
                   gatt_ops, dfu_validated, dfu_progress>>

\* BleakScanner.find_device_by_filter(_match_dfu_device, timeout=scan_timeout):
\* a device, or None and then return False
DfuScan ==
    /\ dfu_pc = "scan"
    /\ dfu_device' = FindDeviceByFilter(adverts)
    /\ adverts' = <<>>
    /\ ble_log' = Append(ble_log, "scan")
    /\ IF dfu_device'.found
       THEN dfu_pc' = "connect" /\ UNCHANGED dfu_result
       ELSE dfu_pc' = "exited" /\ dfu_result' = "false"
    /\ UNCHANGED <<setupVars, updVars, tagVars, instVars, parseVars, chkVars, espVars, mac_address, last_delivered, cp_pc, init_packet,
                   firmware, dfu_callback, connected, notify_handler,
                   response_event, response_data, dfu_response, dfu_offset,
                   wd_data, wd_offset, gatt_ops, dfu_validated, dfu_progress,
                   dfu_error>>

\* async with BleakClient(...) as client: the connect, which may raise;
\* then dfu = NordicDfuController(client)
DfuConnect(ok) ==
    /\ dfu_pc = "connect"
    /\ dfu_device.found
    /\ dfu_device' = NoDevice
    /\ ble_log' = Append(ble_log, "connect")
    /\ IF ok
       THEN /\ connected' = TRUE
            /\ response_event' = FALSE
            /\ response_data' = <<>>
            /\ dfu_pc' = "start_notify"
            /\ UNCHANGED <<dfu_error, dfu_result>>
       ELSE /\ dfu_error' = "connect_error"
            /\ dfu_result' = "raised"
            /\ dfu_pc' = "exited"
            /\ UNCHANGED <<connected, response_event, response_data>>
    /\ UNCHANGED <<setupVars, updVars, tagVars, instVars, parseVars, chkVars, espVars, mac_address, last_delivered, adverts, cp_pc, init_packet, firmware, dfu_callback,
                   notify_handler, dfu_response, dfu_offset, wd_data, wd_offset,
                   gatt_ops, dfu_validated, dfu_progress>>

\* start(): start_notify on the control point
DfuStartNotify(ok) ==
    /\ dfu_pc = "start_notify"
    /\ gatt_ops' = Append(gatt_ops, [op |-> "start_notify", char |-> "control",
                                      data |-> <<>>])
    /\ IF ok
       THEN /\ notify_handler' = TRUE
            /\ dfu_pc' = "set_prn"
            /\ UNCHANGED <<cp_pc, dfu_error>>
       ELSE /\ DfuRaise("gatt_error")
            /\ UNCHANGED notify_handler
    /\ UNCHANGED <<setupVars, updVars, tagVars, instVars, parseVars, chkVars, espVars, mac_address, last_delivered, adverts, ble_log, dfu_device, init_packet, firmware, dfu_callback,
                   connected, response_event, response_data, dfu_response,
                   dfu_offset, wd_data, wd_offset, dfu_validated, dfu_progress,
                   dfu_result>>

\* variant: a notification does not overwrite one that is still unread
DfuNotify_KeepFirst(data) ==
    /\ notify_handler
    /\ connected
    /\ dfu_pc \notin {"stop", "disconnect"}
    /\ response_data' = IF response_event THEN response_data ELSE data
    /\ response_event' = TRUE
    /\ last_delivered' = data
    /\ UNCHANGED <<setupVars, updVars, tagVars, instVars, parseVars, chkVars, espVars, mac_address, adverts, ble_log, dfu_device, dfu_pc, cp_pc, init_packet, firmware,
                   dfu_callback, connected, notify_handler, dfu_response,
                   dfu_offset, wd_data, wd_offset, gatt_ops, dfu_validated,
                   dfu_progress, dfu_error, dfu_result>>

\* _notification_handler(sender, data). Once the call is in stop() nothing
\* reads the event or the buffer any more, so deliveries from then on are left out.
DfuNotify(data) ==
    /\ notify_handler
    /\ connected
    /\ dfu_pc \notin {"stop", "disconnect"}
    /\ response_data' = data
    /\ response_event' = TRUE
    /\ last_delivered' = data
    /\ UNCHANGED <<setupVars, updVars, tagVars, instVars, parseVars, chkVars, espVars, mac_address, adverts, ble_log, dfu_device, dfu_pc, cp_pc, init_packet, firmware,
                   dfu_callback, connected, notify_handler, dfu_response,
                   dfu_offset, wd_data, wd_offset, gatt_ops, dfu_validated,
                   dfu_progress, dfu_error, dfu_result>>

\* variant: the event is left as it is when the command is written
DfuCpWrite_NoClear ==
    /\ dfu_pc \in DfuCpSteps
    /\ cp_pc = "idle"
    /\ gatt_ops' = Append(gatt_ops, [op |-> "write", char |-> "control",
                                      data |-> DfuCommand(dfu_pc)])
    /\ cp_pc' = "writing"
    /\ last_delivered' = <<>>
    /\ UNCHANGED <<setupVars, updVars, tagVars, instVars, parseVars, chkVars, espVars, mac_address, adverts, ble_log, dfu_device, dfu_pc, init_packet, firmware, dfu_callback,
                   connected, notify_handler, response_event, response_data,
                   dfu_response, dfu_offset, wd_data, wd_offset, dfu_validated,
                   dfu_progress, dfu_error, dfu_result>>

\* variant: the command is written without waiting for the previous call
\* to return
DfuCpWrite_Pipelined ==
    /\ dfu_pc \in DfuCpSteps
    /\ cp_pc \in {"idle", "waiting"}
    /\ response_event' = FALSE
    /\ gatt_ops' = Append(gatt_ops, [op |-> "write", char |-> "control",
                                      data |-> DfuCommand(dfu_pc)])
    /\ cp_pc' = "writing"
    /\ last_delivered' = <<>>
    /\ UNCHANGED <<setupVars, updVars, tagVars, instVars, parseVars, chkVars, espVars, mac_address, adverts, ble_log, dfu_device, dfu_pc, init_packet, firmware, dfu_callback,
                   connected, notify_handler, response_data, dfu_response,
                   dfu_offset, wd_data, wd_offset, dfu_validated, dfu_progress,
                   dfu_error, dfu_result>>

\* _write_control_point: clear the event, start the control-point write
DfuCpWrite ==
    /\ dfu_pc \in DfuCpSteps
    /\ cp_pc = "idle"
    /\ response_event' = FALSE
    /\ gatt_ops' = Append(gatt_ops, [op |-> "write", char |-> "control",
                                      data |-> DfuCommand(dfu_pc)])
    /\ cp_pc' = "writing"
    /\ last_delivered' = <<>>
    /\ UNCHANGED <<setupVars, updVars, tagVars, instVars, parseVars, chkVars, espVars, mac_address, adverts, ble_log, dfu_device, dfu_pc, init_packet, firmware, dfu_callback,
                   connected, notify_handler, response_data, dfu_response,
                   dfu_offset, wd_data, wd_offset, dfu_validated, dfu_progress,
                   dfu_error, dfu_result>>

\* _write_control_point: write_gatt_char returns, or raises
DfuCpWritten(ok) ==
    /\ cp_pc = "writing"
    /\ IF ok
       THEN cp_pc' = "waiting" /\ UNCHANGED <<dfu_pc, dfu_error>>
       ELSE DfuRaise("gatt_error")
    /\ UNCHANGED <<setupVars, updVars, tagVars, instVars, parseVars, chkVars, espVars, mac_address, last_delivered, adverts, ble_log, dfu_device, init_packet, firmware, dfu_callback,
                   connected, notify_handler, response_event, response_data,
                   dfu_response, dfu_offset, wd_data, wd_offset, gatt_ops,
                   dfu_validated, dfu_progress, dfu_result>>

\* variant: the callback is invoked when the object's CREATE has validated
DfuAfter_ProgressAtCreate(step) ==
    LET stay == [pc |-> "stop", data |-> wd_data, offset |-> dfu_offset,
                 progress |-> dfu_progress]
        newOffset == dfu_offset + DfuObjectSize
        called == IF dfu_callback
                  THEN Append(dfu_progress, <<newOffset, Len(firmware)>>)
                  ELSE dfu_progress
        object_data == Slice(firmware, dfu_offset, dfu_offset + DfuObjectSize)
    IN  CASE step = "set_prn" -> [stay EXCEPT !.pc = "select_command"]
          [] step = "select_command" -> [stay EXCEPT !.pc = "create_command"]
          [] step = "create_command" ->
                [stay EXCEPT !.pc = IF Len(init_packet) > 0 THEN "data_command"
                                    ELSE "crc_command",
                             !.data = init_packet]
          [] step = "crc_command" -> [stay EXCEPT !.pc = "execute_command"]
          [] step = "execute_command" -> [stay EXCEPT !.pc = "select_data"]
          [] step = "select_data" ->
                [stay EXCEPT !.pc = IF 0 < Len(firmware) THEN "create_data"
                                    ELSE "stop",
                             !.offset = 0]
          [] step = "create_data" ->
                [stay EXCEPT !.pc = IF Len(object_data) > 0 THEN "data_data"
                                    ELSE "crc_data",
                             !.data = object_data,
                             !.progress = called]
          [] step = "crc_data" -> [stay EXCEPT !.pc = "execute_data"]
          [] step = "execute_data" ->
                [stay EXCEPT !.pc = IF newOffset < Len(firmware) THEN "create_data"
                                    ELSE "stop",
                             !.offset = newOffset]

\* what the method does after the response of `step` has validated, up to its
\* next await: [pc, data, offset, progress]
DfuAfter(step) ==
    LET stay == [pc |-> "stop", data |-> wd_data, offset |-> dfu_offset,
                 progress |-> dfu_progress]
        newOffset == dfu_offset + DfuObjectSize
        called == IF dfu_callback
                  THEN Append(dfu_progress, <<newOffset, Len(firmware)>>)
                  ELSE dfu_progress
        object_data == Slice(firmware, dfu_offset, dfu_offset + DfuObjectSize)
    IN  CASE step = "set_prn" -> [stay EXCEPT !.pc = "select_command"]
          [] step = "select_command" -> [stay EXCEPT !.pc = "create_command"]
          [] step = "create_command" ->
                [stay EXCEPT !.pc = IF Len(init_packet) > 0 THEN "data_command"
                                    ELSE "crc_command",
                             !.data = init_packet]
          [] step = "crc_command" -> [stay EXCEPT !.pc = "execute_command"]
          [] step = "execute_command" -> [stay EXCEPT !.pc = "select_data"]
          [] step = "select_data" ->
                [stay EXCEPT !.pc = IF 0 < Len(firmware) THEN "create_data"
                                    ELSE "stop",
                             !.offset = 0]
          [] step = "create_data" ->
                [stay EXCEPT !.pc = IF Len(object_data) > 0 THEN "data_data"
                                    ELSE "crc_data",
                             !.data = object_data]
          [] step = "crc_data" -> [stay EXCEPT !.pc = "execute_data"]
          [] step = "execute_data" ->
                [stay EXCEPT !.pc = IF newOffset < Len(firmware) THEN "create_data"
                                    ELSE "stop",
                             !.offset = newOffset,
                             !.progress = called]

\* _write_control_point: the event is set, return self._response_data;
\* the caller validates it with _check_response and goes on or raises
DfuCpResponse ==
    /\ cp_pc = "waiting"
    /\ response_event
    /\ dfu_response' = response_data
    /\ IF CheckDfuResponse(response_data, DfuExpected(dfu_pc)) = "ok"
       THEN /\ dfu_validated' = Append(dfu_validated, DfuExpected(dfu_pc))
            /\ dfu_pc' = DfuAfter(dfu_pc).pc
            /\ cp_pc' = "idle"
            /\ wd_data' = DfuAfter(dfu_pc).data
            /\ wd_offset' = 0
            /\ dfu_offset' = DfuAfter(dfu_pc).offset
            /\ dfu_progress' = DfuAfter(dfu_pc).progress
            /\ UNCHANGED dfu_error
       ELSE /\ DfuRaise(CheckDfuResponse(response_data, DfuExpected(dfu_pc)))
            /\ UNCHANGED <<dfu_validated, wd_data, wd_offset, dfu_offset,
                           dfu_progress>>
    /\ UNCHANGED <<setupVars, updVars, tagVars, instVars, parseVars, chkVars, espVars, mac_address, last_delivered, adverts, ble_log, dfu_device, init_packet, firmware, dfu_callback,
                   connected, notify_handler, response_event, response_data,
                   gatt_ops, dfu_result>>

\* variant: after 10 s without a notification the buffer is returned as it is
DfuCpTimeout_ReturnsStale ==
    /\ cp_pc = "waiting"
    /\ ~response_event
    /\ dfu_response' = response_data
    /\ IF CheckDfuResponse(response_data, DfuExpected(dfu_pc)) = "ok"
       THEN /\ dfu_validated' = Append(dfu_validated, DfuExpected(dfu_pc))
            /\ dfu_pc' = DfuAfter(dfu_pc).pc
            /\ cp_pc' = "idle"
            /\ wd_data' = DfuAfter(dfu_pc).data
            /\ wd_offset' = 0
            /\ dfu_offset' = DfuAfter(dfu_pc).offset
            /\ dfu_progress' = DfuAfter(dfu_pc).progress
            /\ UNCHANGED dfu_error
       ELSE /\ DfuRaise(CheckDfuResponse(response_data, DfuExpected(dfu_pc)))
            /\ UNCHANGED <<dfu_validated, wd_data, wd_offset, dfu_offset,
                           dfu_progress>>
    /\ UNCHANGED <<setupVars, updVars, tagVars, instVars, parseVars, chkVars, espVars, mac_address, last_delivered, adverts, ble_log, dfu_device, init_packet, firmware, dfu_callback,
                   connected, notify_handler, response_event, response_data,
                   gatt_ops, dfu_result>>

\* _write_control_point: no notification within 10 s, wait_for raises TimeoutError
DfuCpTimeout ==
    /\ cp_pc = "waiting"
    /\ ~response_event
    /\ DfuRaise("timeout")
    /\ UNCHANGED <<setupVars, updVars, tagVars, instVars, parseVars, chkVars, espVars, mac_address, last_delivered, adverts, ble_log, dfu_device, init_packet, firmware, dfu_callback,
                   connected, notify_handler, response_event, response_data,
                   dfu_response, dfu_offset, wd_data, wd_offset, gatt_ops,
                   dfu_validated, dfu_progress, dfu_result>>

\* variant: every packet is cut from the start of the data
DfuWritePacket_FromStart(ok) ==
    /\ dfu_pc \in {"data_command", "data_data"}
    /\ wd_offset < Len(wd_data)
    /\ LET chunk_size == Min(Len(wd_data), DFU_PACKET_SIZE)
           chunk == Slice(wd_data, 0, Min(chunk_size, Len(wd_data) - wd_offset))
       IN  /\ gatt_ops' = Append(gatt_ops, [op |-> "write", char |-> "packet",
                                             data |-> chunk])
           /\ IF ok
              THEN /\ wd_offset' = wd_offset + Len(chunk)
                   /\ dfu_pc' = IF wd_offset' < Len(wd_data) THEN dfu_pc
                                ELSE IF dfu_pc = "data_command" THEN "crc_command"
                                ELSE "crc_data"
                   /\ UNCHANGED <<cp_pc, dfu_error>>
              ELSE /\ DfuRaise("gatt_error")
                   /\ UNCHANGED wd_offset
    /\ UNCHANGED <<setupVars, updVars, tagVars, instVars, parseVars, chkVars, espVars, mac_address, last_delivered, adverts, ble_log, dfu_device, init_packet, firmware, dfu_callback,
                   connected, notify_handler, response_event, response_data,
                   dfu_response, dfu_offset, wd_data, dfu_validated,
                   dfu_progress, dfu_result>>

\* _write_data: one iteration of the loop, a write without response
DfuWritePacket(ok) ==
    /\ dfu_pc \in {"data_command", "data_data"}
    /\ wd_offset < Len(wd_data)
    /\ LET chunk_size == Min(Len(wd_data), DFU_PACKET_SIZE)
           chunk == Slice(wd_data, wd_offset, wd_offset + chunk_size)
       IN  /\ gatt_ops' = Append(gatt_ops, [op |-> "write", char |-> "packet",
                                             data |-> chunk])
           /\ IF ok
              THEN /\ wd_offset' = wd_offset + Len(chunk)
                   /\ dfu_pc' = IF wd_offset' < Len(wd_data) THEN dfu_pc
                                ELSE IF dfu_pc = "data_command" THEN "crc_command"
                                ELSE "crc_data"
                   /\ UNCHANGED <<cp_pc, dfu_error>>
              ELSE /\ DfuRaise("gatt_error")
                   /\ UNCHANGED wd_offset
    /\ UNCHANGED <<setupVars, updVars, tagVars, instVars, parseVars, chkVars, espVars, mac_address, last_delivered, adverts, ble_log, dfu_device, init_packet, firmware, dfu_callback,
                   connected, notify_handler, response_event, response_data,
                   dfu_response, dfu_offset, wd_data, dfu_validated,
                   dfu_progress, dfu_result>>

\* the call in flight while the coroutine is suspended inside the try block:
\* the subscribe, a packet write, or none that is still to be logged (a
\* control-point write is logged when it is issued)
DfuInFlight ==
    IF dfu_pc = "start_notify"
    THEN <<[op |-> "start_notify", char |-> "control", data |-> <<>>]>>
    ELSE IF dfu_pc \in {"data_command", "data_data"}
    THEN <<[op |-> "write", char |-> "packet",
            data |-> Slice(wd_data, wd_offset,
                           wd_offset + Min(Len(wd_data), DFU_PACKET_SIZE))]>>
    ELSE <<>>

\* the coroutine is suspended in an await of the try block
DfuSuspended ==
    \/ dfu_pc = "start_notify"
    \/ dfu_pc \in {"data_command", "data_data"} /\ wd_offset < Len(wd_data)
    \/ dfu_pc \in DfuCpSteps /\ cp_pc = "writing"
    \/ dfu_pc \in DfuCpSteps /\ cp_pc = "waiting" /\ ~response_event

\* variant: a cancellation leaves the block without running finally
DfuCancel_SkipsStop ==
    /\ DfuSuspended
    /\ gatt_ops' = gatt_ops \o DfuInFlight
    /\ dfu_error' = "cancelled"
    /\ dfu_pc' = "disconnect"
    /\ cp_pc' = "idle"
    /\ UNCHANGED <<setupVars, updVars, tagVars, instVars, parseVars, chkVars, espVars, mac_address, last_delivered, adverts, ble_log, dfu_device, init_packet, firmware, dfu_callback,
                   connected, notify_handler, response_event, response_data,
                   dfu_response, dfu_offset, wd_data, wd_offset, dfu_validated,
                   dfu_progress, dfu_result>>

\* the awaiting task is cancelled while the protocol runs: CancelledError is
\* raised at the await; it is no Exception, so the except clause is passed
\* by, and finally runs stop()
DfuCancel ==
    /\ DfuSuspended
    /\ gatt_ops' = gatt_ops \o DfuInFlight
    /\ DfuRaise("cancelled")
    /\ UNCHANGED <<setupVars, updVars, tagVars, instVars, parseVars, chkVars, espVars, mac_address, last_delivered, adverts, ble_log, dfu_device, init_packet, firmware, dfu_callback,
                   connected, notify_handler, response_event, response_data,
                   dfu_response, dfu_offset, wd_data, wd_offset, dfu_validated,
                   dfu_progress, dfu_result>>

\* variant: a failure of stop_notify is not swallowed and replaces the
\* exception being propagated
DfuStop_NotSwallowed(ok) ==
    /\ dfu_pc = "stop"
    /\ gatt_ops' = Append(gatt_ops, [op |-> "stop_notify", char |-> "control",
                                      data |-> <<>>])
    /\ notify_handler' = IF ok THEN FALSE ELSE notify_handler
    /\ dfu_error' = IF ok THEN dfu_error ELSE "stop_error"
    /\ dfu_pc' = "disconnect"
    /\ UNCHANGED <<setupVars, updVars, tagVars, instVars, parseVars, chkVars, espVars, mac_address, last_delivered, adverts, ble_log, dfu_device, cp_pc, init_packet, firmware, dfu_callback,
                   connected, response_event, response_data, dfu_response,
                   dfu_offset, wd_data, wd_offset, dfu_validated, dfu_progress,
                   dfu_result>>

\* variant: a failure of stop_notify after a successful transfer is raised
DfuStop_FailsSuccess(ok) ==
    /\ dfu_pc = "stop"
    /\ gatt_ops' = Append(gatt_ops, [op |-> "stop_notify", char |-> "control",
                                      data |-> <<>>])
    /\ notify_handler' = IF ok THEN FALSE ELSE notify_handler
    /\ dfu_error' = IF ~ok /\ dfu_error = "none" THEN "stop_error" ELSE dfu_error
    /\ dfu_pc' = "disconnect"
    /\ UNCHANGED <<setupVars, updVars, tagVars, instVars, parseVars, chkVars, espVars, mac_address, last_delivered, adverts, ble_log, dfu_device, cp_pc, init_packet, firmware, dfu_callback,
                   connected, response_event, response_data, dfu_response,
                   dfu_offset, wd_data, wd_offset, dfu_validated, dfu_progress,
                   dfu_result>>

\* finally: stop(): stop_notify, whose failure is swallowed
DfuStop(ok) ==
    /\ dfu_pc = "stop"
    /\ gatt_ops' = Append(gatt_ops, [op |-> "stop_notify", char |-> "control",
                                      data |-> <<>>])
    /\ notify_handler' = IF ok THEN FALSE ELSE notify_handler
    /\ dfu_pc' = "disconnect"
    /\ UNCHANGED <<setupVars, updVars, tagVars, instVars, parseVars, chkVars, espVars, mac_address, last_delivered, adverts, ble_log, dfu_device, cp_pc, init_packet, firmware, dfu_callback,
                   connected, response_event, response_data, dfu_response,
                   dfu_offset, wd_data, wd_offset, dfu_validated, dfu_progress,
                   dfu_error, dfu_result>>

\* leaving the async with block disconnects; the call returns True or the
\* exception reaches the caller
DfuDisconnect ==
    /\ dfu_pc = "disconnect"
    /\ connected' = FALSE
    /\ dfu_result' = IF dfu_error = "none" THEN "true" ELSE "raised"
    /\ dfu_pc' = "exited"
    /\ UNCHANGED <<setupVars, updVars, tagVars, instVars, parseVars, chkVars, espVars, mac_address, last_delivered, adverts, ble_log, dfu_device, cp_pc, init_packet, firmware, dfu_callback,
                   notify_handler, response_event, response_data, dfu_response,
                   dfu_offset, wd_data, wd_offset, gatt_ops, dfu_validated,
                   dfu_progress, dfu_error>>

DfuNext ==
    \/ DfuParse
    \/ DfuScan
    \/ \E ok \in BOOLEAN : DfuConnect(ok)
    \/ \E ok \in BOOLEAN : DfuStartNotify(ok)
    \/ \E d \in DfuNotifications : DfuNotify(d)
    \/ DfuCpWrite
    \/ \E ok \in BOOLEAN : DfuCpWritten(ok)
    \/ DfuCpTimeout
    \/ DfuCpResponse
    \/ \E ok \in BOOLEAN : DfuWritePacket(ok)
    \/ DfuCancel
    \/ \E ok \in BOOLEAN : DfuStop(ok)
    \/ DfuDisconnect

SpecDfu == DfuInit /\ [][DfuNext]_vars

(***************************************************************************)
(* The two validators applied to every response of at most MaxRespLen      *)
(* bytes over OtaBytes / DfuBytes, for every expected command / opcode.    *)
(***************************************************************************)

ChkInit ==
    /\ UpdIdle
    /\ SetupIdle
    /\ TagsIdle
    /\ InstIdle
    /\ ParseIdle
    /\ EspIdle
    /\ DfuIdle
    /\ chk_outcome = "pending"
    /\ \/ /\ chk_which = "ota"
          /\ chk_response \in ByteStrings(OtaBytes, MaxRespLen)
          /\ chk_expected \in OtaExpected
       \/ /\ chk_which = "dfu"
          /\ chk_response \in ByteStrings(DfuBytes, MaxRespLen)
          /\ chk_expected \in DfuOpcodes

ChkOta ==
    /\ chk_which = "ota"
    /\ chk_outcome = "pending"
    /\ chk_outcome' = CheckOtaResponse(chk_response, chk_expected)
    /\ UNCHANGED <<chk_which, chk_response, chk_expected, espVars, dfuVars,
                   parseVars, instVars, tagVars, updVars,
                   setupVars>>

ChkDfu ==
    /\ chk_which = "dfu"
    /\ chk_outcome = "pending"
    /\ chk_outcome' = CheckDfuResponse(chk_response, chk_expected)
    /\ UNCHANGED <<chk_which, chk_response, chk_expected, espVars, dfuVars,
                   parseVars, instVars, tagVars, updVars,
                   setupVars>>

ChkNext == ChkOta \/ ChkDfu

SpecCheck == ChkInit /\ [][ChkNext]_vars

(***************************************************************************)
(* OpenDisplayBleUpdateEntity.async_install with _install_nrf52840 and     *)
(* _install_esp32.  inst_pc names the await the call is at:                *)
(*   call (invoked), nrf_url, nrf_get, nrf_enter_dfu, nrf_sleep,           *)
(*   nrf_update, nrf_reboot, esp_url, esp_get, esp_ota, esp_reboot,        *)
(*   returned, raised, cancelled                                           *)
(* The calls on the outside are steps with an outcome: the asset lookup,   *)
(* the download, the BLEConnection with enter_dfu_mode, perform_dfu_update *)
(* (True, False or an exception) and perform_esp32_ota (return or an       *)
(* exception).  inst_log lists them in the order made, and what            *)
(* perform_dfu_update came back with.  None is written    *)
(* "None" for a version and IC_NONE for the IC type; the in-progress       *)
(* attribute is "False", "True" or a percentage.                           *)
(***************************************************************************)
\* the IC types the device metadata may report
InstIcTypes == {IC_NONE, 0, IC_TYPE_NRF52840, IC_TYPE_ESP32_S3, IC_TYPE_ESP32_C3,
                IC_TYPE_ESP32_C6, 5}
InstVersions == {"None", "1.2"}
InstLatestVersions == {"None", "1.3"}
\* the DFU packages a download may deliver
InstZips ==
    {<<[name |-> <<"a">> \o DAT_SUFFIX, content |-> <<1>>],
       [name |-> <<"a">> \o BIN_SUFFIX, content |-> <<2, 3>>]>>,
     <<[name |-> <<"a">> \o DAT_SUFFIX, content |-> <<1>>]>>,
     <<[name |-> <<"a">> \o BIN_SUFFIX, content |-> <<2, 3>>]>>,
     <<>>}
\* the ESP32 images a download may deliver
InstImages == {<<>>, <<1>>, <<2, 3>>}
InstStatuses == {200, 404}
\* the percentages the progress callback may compute
InstPercents == {"81", "100"}

InstInit ==
    /\ UpdIdle
    /\ SetupIdle
    /\ TagsIdle
    /\ ChkIdle
    /\ EspIdle
    /\ DfuIdle
    /\ ParseIdle
    /\ inst_pc = "call"
    /\ ic_type \in InstIcTypes
    /\ inst_version \in InstVersions
    /\ latest_version \in InstLatestVersions
    /\ target_version = "None"
    /\ installed_version = "1.0"
    /\ is_updating \in BOOLEAN
    /\ in_progress = "False"
    /\ inst_data = <<>>
    /\ inst_log = <<>>
    /\ inst_error = "none"
    /\ second_call = "none"

\* an exception inside the try block of async_install: the except clause
\* resets the in-progress attribute and re-raises, finally releases the guard
InstRaise(kind) ==
    /\ inst_error' = kind
    /\ in_progress' = "False"
    /\ is_updating' = FALSE
    /\ inst_pc' = "raised"

\* variant: the ESP32-C6 is not among the chips of the OTA path
InstStart_WithoutC6 ==
    /\ inst_pc = "call"
    /\ IF is_updating
       THEN /\ inst_pc' = "returned"
            /\ UNCHANGED <<target_version, is_updating, in_progress, inst_log,
                           inst_error>>
       ELSE LET target == IF inst_version \notin {"None", ""} THEN inst_version
                          ELSE latest_version
            IN  /\ target_version' = target
                /\ IF target \in {"None", ""}
                   THEN InstRaise("no_target_version") /\ UNCHANGED inst_log
                   ELSE IF ic_type = IC_TYPE_NRF52840
                   THEN /\ inst_pc' = "nrf_url"
                        /\ inst_log' = Append(inst_log, "_install_nrf52840")
                        /\ is_updating' = TRUE
                        /\ in_progress' = "True"
                        /\ UNCHANGED inst_error
                   ELSE IF ic_type \in {IC_TYPE_ESP32_S3, IC_TYPE_ESP32_C3}
                   THEN /\ inst_pc' = "esp_url"
                        /\ inst_log' = Append(inst_log, "_install_esp32")
                        /\ is_updating' = TRUE
                        /\ in_progress' = "True"
                        /\ UNCHANGED inst_error
                   ELSE InstRaise("unknown_ic_type") /\ UNCHANGED inst_log
    /\ UNCHANGED <<setupVars, updVars, tagVars, chkVars, espVars, dfuVars, parseVars, second_call,
                   ic_type, inst_version,
                   latest_version, installed_version, inst_data>>

\* async_install up to its first await: the guard, the target version, the
\* choice of the engine by the IC type; inst_log records the path entered
InstStart ==
    /\ inst_pc = "call"
    /\ IF is_updating
       THEN /\ inst_pc' = "returned"
            /\ UNCHANGED <<target_version, is_updating, in_progress, inst_log,
                           inst_error>>
       ELSE LET target == IF inst_version \notin {"None", ""} THEN inst_version
                          ELSE latest_version
            IN  /\ target_version' = target
                /\ IF target \in {"None", ""}
                   THEN InstRaise("no_target_version") /\ UNCHANGED inst_log
                   ELSE IF ic_type = IC_TYPE_NRF52840
                   THEN /\ inst_pc' = "nrf_url"
                        /\ inst_log' = Append(inst_log, "_install_nrf52840")
                        /\ is_updating' = TRUE
                        /\ in_progress' = "True"
                        /\ UNCHANGED inst_error
                   ELSE IF ic_type \in {IC_TYPE_ESP32_S3, IC_TYPE_ESP32_C3,
                                        IC_TYPE_ESP32_C6}
                   THEN /\ inst_pc' = "esp_url"
                        /\ inst_log' = Append(inst_log, "_install_esp32")
                        /\ is_updating' = TRUE
                        /\ in_progress' = "True"
                        /\ UNCHANGED inst_error
                   ELSE InstRaise("unknown_ic_type") /\ UNCHANGED inst_log
    /\ UNCHANGED <<setupVars, updVars, tagVars, chkVars, espVars, dfuVars, parseVars, second_call,
                   ic_type, inst_version,
                   latest_version, installed_version, inst_data>>

\* _install_nrf52840: _get_firmware_download_url returns a URL or None
InstNrfUrl(found) ==
    /\ inst_pc = "nrf_url"
    /\ inst_log' = Append(inst_log, "asset_lookup")
    /\ IF found
       THEN /\ inst_pc' = "nrf_get"
            /\ UNCHANGED <<is_updating, in_progress, inst_error>>
       ELSE InstRaise("asset_not_found")
    /\ UNCHANGED <<setupVars, updVars, tagVars, chkVars, espVars, dfuVars, parseVars, second_call,
                   ic_type, inst_version,
                   latest_version, target_version, installed_version, inst_data>>

\* _install_nrf52840: the download, then parse_dfu_package on what came
InstNrfGet(status, data) ==
    /\ inst_pc = "nrf_get"
    /\ IF status # 200
       THEN /\ inst_log' = Append(inst_log, "download")
            /\ InstRaise("download_failed")
            /\ UNCHANGED inst_data
       ELSE /\ inst_data' = data
            /\ inst_log' = inst_log \o <<"download", "parse_dfu_package">>
            /\ IF parse_dfu_package(data).outcome = "ValueError"
               THEN InstRaise("invalid_package")
               ELSE /\ inst_pc' = "nrf_enter_dfu"
                    /\ UNCHANGED <<is_updating, in_progress, inst_error>>
    /\ UNCHANGED <<setupVars, updVars, tagVars, chkVars, espVars, dfuVars, parseVars, second_call,
                   ic_type, inst_version,
                   latest_version, target_version, installed_version>>

\* variant: the value enter_dfu_mode returns is not tested
InstEnterDfu_ResultIgnored(res) ==
    /\ inst_pc = "nrf_enter_dfu"
    /\ inst_log' = inst_log \o <<"ble_connect", "enter_dfu_mode",
                                  IF res = "accepted" THEN "dfu_mode_accepted"
                                  ELSE IF res = "rejected" THEN "dfu_mode_rejected"
                                  ELSE "dfu_mode_error",
                                  "ble_disconnect">>
    /\ IF res \in {"accepted", "rejected"}
       THEN /\ inst_pc' = "nrf_sleep"
            /\ UNCHANGED <<is_updating, in_progress, inst_error>>
       ELSE InstRaise(IF res = "rejected" THEN "dfu_mode_rejected" ELSE "ble_error")
    /\ UNCHANGED <<setupVars, updVars, tagVars, chkVars, espVars, dfuVars, parseVars, second_call,
                   ic_type, inst_version,
                   latest_version, target_version, installed_version, inst_data>>

\* _install_nrf52840: the BLEConnection block around enter_dfu_mode, which
\* returns True ("accepted") or False ("rejected"), or fails ("error")
InstEnterDfu(res) ==
    /\ inst_pc = "nrf_enter_dfu"
    /\ inst_log' = inst_log \o <<"ble_connect", "enter_dfu_mode",
                                  IF res = "accepted" THEN "dfu_mode_accepted"
                                  ELSE IF res = "rejected" THEN "dfu_mode_rejected"
                                  ELSE "dfu_mode_error",
                                  "ble_disconnect">>
    /\ IF res = "accepted"
       THEN /\ inst_pc' = "nrf_sleep"
            /\ UNCHANGED <<is_updating, in_progress, inst_error>>
       ELSE InstRaise(IF res = "rejected" THEN "dfu_mode_rejected" ELSE "ble_error")
    /\ UNCHANGED <<setupVars, updVars, tagVars, chkVars, espVars, dfuVars, parseVars, second_call,
                   ic_type, inst_version,
                   latest_version, target_version, installed_version, inst_data>>

\* _install_nrf52840: asyncio.sleep(3), then perform_dfu_update is called
InstSleep ==
    /\ inst_pc = "nrf_sleep"
    /\ inst_log' = Append(inst_log, "perform_dfu_update")
    /\ inst_pc' = "nrf_update"
    /\ UNCHANGED <<setupVars, updVars, tagVars, chkVars, espVars, dfuVars, parseVars, second_call,
                   ic_type, inst_version,
                   latest_version, target_version, installed_version, is_updating,
                   in_progress, inst_data, inst_error>>

\* _progress_callback, invoked by the engine that is running
InstProgress(percent) ==
    /\ inst_pc \in {"nrf_update", "esp_ota"}
    /\ in_progress' = percent
    /\ UNCHANGED <<setupVars, updVars, tagVars, chkVars, espVars, dfuVars, parseVars, second_call,
                   ic_type, inst_version,
                   latest_version, target_version, installed_version, is_updating,
                   inst_pc, inst_data, inst_log, inst_error>>

\* variant: the value perform_dfu_update returns is not tested
InstDfuUpdate_ResultIgnored(outcome) ==
    /\ inst_pc = "nrf_update"
    /\ inst_log' = Append(inst_log, IF outcome = "true" THEN "dfu_update_true"
                                    ELSE IF outcome = "false" THEN "dfu_update_false"
                                    ELSE "dfu_update_raised")
    /\ IF outcome \in {"true", "false"}
       THEN /\ inst_pc' = "nrf_reboot"
            /\ UNCHANGED <<is_updating, in_progress, inst_error>>
       ELSE InstRaise(IF outcome = "false" THEN "dfu_update_failed"
                      ELSE "dfu_update_error")
    /\ UNCHANGED <<setupVars, updVars, tagVars, chkVars, espVars, dfuVars, parseVars, second_call,
                   ic_type, inst_version,
                   latest_version, target_version, installed_version, inst_data>>

\* _install_nrf52840: perform_dfu_update returns True or False, or raises
InstDfuUpdate(outcome) ==
    /\ inst_pc = "nrf_update"
    /\ inst_log' = Append(inst_log, IF outcome = "true" THEN "dfu_update_true"
                                    ELSE IF outcome = "false" THEN "dfu_update_false"
                                    ELSE "dfu_update_raised")
    /\ IF outcome = "true"
       THEN /\ inst_pc' = "nrf_reboot"
            /\ UNCHANGED <<is_updating, in_progress, inst_error>>
       ELSE InstRaise(IF outcome = "false" THEN "dfu_update_failed"
                      ELSE "dfu_update_error")
    /\ UNCHANGED <<setupVars, updVars, tagVars, chkVars, espVars, dfuVars, parseVars, second_call,
                   ic_type, inst_version,
                   latest_version, target_version, installed_version, inst_data>>

\* _install_esp32: _get_firmware_download_url returns a URL or None
InstEspUrl(found) ==
    /\ inst_pc = "esp_url"
    /\ inst_log' = Append(inst_log, "asset_lookup")
    /\ IF found
       THEN /\ inst_pc' = "esp_get"
            /\ UNCHANGED <<is_updating, in_progress, inst_error>>
       ELSE InstRaise("asset_not_found")
    /\ UNCHANGED <<setupVars, updVars, tagVars, chkVars, espVars, dfuVars, parseVars, second_call,
                   ic_type, inst_version,
                   latest_version, target_version, installed_version, inst_data>>

\* variant: an empty image is not rejected
InstEspGet_EmptyAccepted(status, data) ==
    /\ inst_pc = "esp_get"
    /\ IF status # 200
       THEN /\ inst_log' = Append(inst_log, "download")
            /\ InstRaise("download_failed")
            /\ UNCHANGED inst_data
       ELSE /\ inst_data' = data
            /\ IF FALSE
               THEN /\ inst_log' = Append(inst_log, "download")
                    /\ InstRaise("empty_firmware")
               ELSE /\ inst_log' = inst_log \o <<"download", "ble_connect",
                                                  "perform_esp32_ota">>
                    /\ inst_pc' = "esp_ota"
                    /\ UNCHANGED <<is_updating, in_progress, inst_error>>
    /\ UNCHANGED <<setupVars, updVars, tagVars, chkVars, espVars, dfuVars, parseVars, second_call,
                   ic_type, inst_version,
                   latest_version, target_version, installed_version>>

\* _install_esp32: the download, the test for an empty image, then the
\* BLEConnection is opened and perform_esp32_ota called
InstEspGet(status, data) ==
    /\ inst_pc = "esp_get"
    /\ IF status # 200
       THEN /\ inst_log' = Append(inst_log, "download")
            /\ InstRaise("download_failed")
            /\ UNCHANGED inst_data
       ELSE /\ inst_data' = data
            /\ IF Len(data) = 0
               THEN /\ inst_log' = Append(inst_log, "download")
                    /\ InstRaise("empty_firmware")
               ELSE /\ inst_log' = inst_log \o <<"download", "ble_connect",
                                                  "perform_esp32_ota">>
                    /\ inst_pc' = "esp_ota"
                    /\ UNCHANGED <<is_updating, in_progress, inst_error>>
    /\ UNCHANGED <<setupVars, updVars, tagVars, chkVars, espVars, dfuVars, parseVars, second_call,
                   ic_type, inst_version,
                   latest_version, target_version, installed_version>>

\* _install_esp32: perform_esp32_ota returns or raises; the connection closes
InstEspOta(ok) ==
    /\ inst_pc = "esp_ota"
    /\ inst_log' = inst_log \o <<IF ok THEN "esp32_ota_returned"
                                  ELSE "esp32_ota_raised", "ble_disconnect">>
    /\ IF ok
       THEN /\ inst_pc' = "esp_reboot"
            /\ UNCHANGED <<is_updating, in_progress, inst_error>>
       ELSE InstRaise("esp_ota_error")
    /\ UNCHANGED <<setupVars, updVars, tagVars, chkVars, espVars, dfuVars, parseVars, second_call,
                   ic_type, inst_version,
                   latest_version, target_version, installed_version, inst_data>>

\* asyncio.sleep(5) of either path, then async_install marks the update
\* complete and finally releases the guard
InstComplete ==
    /\ inst_pc \in {"nrf_reboot", "esp_reboot"}
    /\ installed_version' = target_version
    /\ in_progress' = "False"
    /\ is_updating' = FALSE
    /\ inst_pc' = "returned"
    /\ UNCHANGED <<setupVars, updVars, tagVars, chkVars, espVars, dfuVars, parseVars, second_call,
                   ic_type, inst_version,
                   latest_version, target_version, inst_data, inst_log, inst_error>>

\* the awaits of a call that has passed the guard
InstAwaits == {"nrf_url", "nrf_get", "nrf_enter_dfu", "nrf_sleep", "nrf_update",
               "nrf_reboot", "esp_url", "esp_get", "esp_ota", "esp_reboot"}

\* variant: the guard is released in the except clause, which a
\* cancellation passes over
InstCancel_GuardKept ==
    /\ inst_pc \in InstAwaits
    /\ inst_pc' = "cancelled"
    /\ inst_error' = "CancelledError"
    /\ UNCHANGED <<setupVars, updVars, tagVars, chkVars, espVars, dfuVars, parseVars, second_call,
                   ic_type, inst_version, latest_version, target_version,
                   installed_version, is_updating, in_progress, inst_data,
                   inst_log>>

\* the task of the call is cancelled at an await: CancelledError is no
\* Exception, so the except clause is passed over and finally releases the
\* guard
InstCancel ==
    /\ inst_pc \in InstAwaits
    /\ inst_pc' = "cancelled"
    /\ inst_error' = "CancelledError"
    /\ is_updating' = FALSE
    /\ UNCHANGED <<setupVars, updVars, tagVars, chkVars, espVars, dfuVars, parseVars, second_call,
                   ic_type, inst_version, latest_version, target_version,
                   installed_version, in_progress, inst_data, inst_log>>

\* variant: the test of the guard sits inside the try block
InstSecondCall_GuardInTry ==
    /\ inst_pc \in InstAwaits
    /\ second_call = "none"
    /\ IF is_updating
       THEN second_call' = "returned" /\ is_updating' = FALSE
       ELSE second_call' = "entered" /\ is_updating' = TRUE
    /\ UNCHANGED <<setupVars, updVars, tagVars, chkVars, espVars, dfuVars, parseVars, inst_pc,
                   ic_type, inst_version, latest_version, target_version,
                   installed_version, in_progress, inst_data, inst_log,
                   inst_error>>

\* async_install called again on the entity while the first call is at an
\* await: the guard is tested, and the call returns or goes on past it
InstSecondCall ==
    /\ inst_pc \in InstAwaits
    /\ second_call = "none"
    /\ IF is_updating
       THEN second_call' = "returned" /\ UNCHANGED is_updating
       ELSE second_call' = "entered" /\ is_updating' = TRUE
    /\ UNCHANGED <<setupVars, updVars, tagVars, chkVars, espVars, dfuVars, parseVars, inst_pc,
                   ic_type, inst_version, latest_version, target_version,
                   installed_version, in_progress, inst_data, inst_log,
                   inst_error>>

InstNext ==
    \/ InstStart
    \/ InstCancel
    \/ InstSecondCall
    \/ \E found \in BOOLEAN : InstNrfUrl(found)
    \/ \E status \in InstStatuses, data \in InstZips : InstNrfGet(status, data)
    \/ \E res \in {"accepted", "rejected", "error"} : InstEnterDfu(res)
    \/ InstSleep
    \/ \E percent \in InstPercents : InstProgress(percent)
    \/ \E outcome \in {"true", "false", "raised"} : InstDfuUpdate(outcome)
    \/ \E found \in BOOLEAN : InstEspUrl(found)
    \/ \E status \in InstStatuses, data \in InstImages : InstEspGet(status, data)
    \/ \E ok \in BOOLEAN : InstEspOta(ok)
    \/ InstComplete

SpecInstall == InstInit /\ [][InstNext]_vars

(***************************************************************************)
(* scripts/generate_tag_types.py: main() rewrites the fallback block of    *)
(* tag_types.py from the fetched definitions.  A text is the sequence of   *)
(* its lines (text.split("\n")), a line the sequence of its characters.    *)
(* A definition is reduced to its version number, and json.dumps renders   *)
(* it as {"version": N}.  Type ids are the non-negative integers           *)
(* fetch_tag_types.py makes from hexadecimal file names.                   *)
(***************************************************************************)
MaxLines == 2
MaxRuns == 2

TagIds == {2, 17, 100}
TagVersions == {1, 2}
\* load_new_tag_types: the dicts {int: definition} a run may be given
TagInputs == UNION {[S -> TagVersions] : S \in SUBSET TagIds}

Digits == <<"0", "1", "2", "3", "4", "5", "6", "7", "8", "9">>
IsDigit(c) == \E d \in 1..10 : Digits[d] = c
DigitValue(c) == (CHOOSE d \in 1..10 : Digits[d] = c) - 1
IsSpace(c) == c = " "

\* str(n) of a non-negative integer
RECURSIVE Decimal(_)
Decimal(n) ==
    IF n < 10 THEN <<Digits[n + 1]>>
    ELSE Decimal(n \div 10) \o <<Digits[(n % 10) + 1]>>
\* int(s) of a string of digits
RECURSIVE IntOf(_)
IntOf(s) ==
    IF Len(s) = 0 THEN 0
    ELSE 10 * IntOf(SubSeq(s, 1, Len(s) - 1)) + DigitValue(s[Len(s)])

\* json.dumps(type_data, ensure_ascii=False)
JsonDumps(type_data) ==
    <<"{", "\"", "v", "e", "r", "s", "i", "o", "n", "\"", ":", " ">> \o Decimal(type_data) \o <<"}">>

\* f"{type_id}: {json.dumps(...)}," as compute_changes builds it
NewLine(type_id, type_data) ==
    Decimal(type_id) \o <<":", " ">> \o JsonDumps(type_data) \o <<",">>
ENTRY_INDENT == <<" ", " ", " ", " ", " ", " ", " ", " ", " ", " ", " ", " ">>
\* the line generate_fallback_content builds
FallbackLine(type_id, type_data) == ENTRY_INDENT \o NewLine(type_id, type_data)

\* sorted(keys)
RECURSIVE Sorted(_)
Sorted(S) ==
    IF S = {} THEN <<>>
    ELSE LET least == CHOOSE x \in S : \A y \in S : x <= y
         IN  <<least>> \o Sorted(S \ {least})

\* str.strip
RECURSIVE Strip(_)
Strip(s) ==
    IF Len(s) = 0 THEN s
    ELSE IF IsSpace(s[1]) THEN Strip(Tail(s))
    ELSE IF IsSpace(s[Len(s)]) THEN Strip(SubSeq(s, 1, Len(s) - 1))
    ELSE s

\* ENTRY_PATTERN.match(line): whitespace, then digits, then a colon; the
\* digits matched, <<>> when the line does not match
LeadingRun(s, from, Test(_)) ==
    LET stop == {i \in from..Len(s) : ~Test(s[i])}
    IN  IF stop = {} THEN Len(s) - from + 1
        ELSE (CHOOSE i \in stop : \A j \in stop : i <= j) - from
EntryMatch(line) ==
    LET spaces == LeadingRun(line, 1, IsSpace)
        digits == LeadingRun(line, spaces + 1, IsDigit)
    IN  IF /\ spaces >= 1
           /\ digits >= 1
           /\ spaces + digits + 1 <= Len(line)
           /\ line[spaces + digits + 1] = ":"
        THEN SubSeq(line, spaces + 1, spaces + digits)
        ELSE <<>>

\* FALLBACK_PATTERN, groups 1 and 3
FALLBACK_OPEN ==
    <<" ", " ", " ", " ", " ", " ", " ", " ", "f", "a", "l", "l", "b",
      "a", "c", "k", "_", "d", "e", "f", "i", "n", "i", "t", "i", "o",
      "n", "s", " ", "=", " ", "{">>
FALLBACK_CLOSE ==
    <<" ", " ", " ", " ", " ", " ", " ", " ", "}">>
StartsWith(s, prefix) ==
    Len(s) >= Len(prefix) /\ SubSeq(s, 1, Len(prefix)) = prefix
\* FALLBACK_PATTERN.search(content): the line the opening ends and the line
\* the closing begins, with at least one line (group 2) between them;
\* found is FALSE when there is no match
FallbackSearch(content) ==
    LET opens == {i \in 1..Len(content) : EndsWith(content[i], FALLBACK_OPEN)}
        first == CHOOSE i \in opens : \A k \in opens : i <= k
        closes == {j \in 1..Len(content) :
                      /\ opens # {}
                      /\ j >= first + 2
                      /\ StartsWith(content[j], FALLBACK_CLOSE)}
    IN  IF opens = {} \/ closes = {}
        THEN [found |-> FALSE, open |-> 0, close |-> 0]
        ELSE [found |-> TRUE, open |-> first,
              close |-> CHOOSE j \in closes : \A k \in closes : j <= k]

\* parse_current_definitions, given the match: {type_id: stripped line},
\* a later line of an id replacing an earlier one
RECURSIVE ParseEntries(_, _)
ParseEntries(lines, current_types) ==
    IF Len(lines) = 0 THEN current_types
    ELSE LET m == EntryMatch(lines[1])
         IN  IF m # <<>>
             THEN ParseEntries(Tail(lines),
                      [id \in DOMAIN current_types \cup {IntOf(m)} |->
                          IF id = IntOf(m) THEN Strip(lines[1])
                          ELSE current_types[id]])
             ELSE ParseEntries(Tail(lines), current_types)
parse_current_definitions(content) ==
    LET match == FallbackSearch(content)
    IN  ParseEntries(SubSeq(content, match.open + 1, match.close - 1), <<>>)

\* variant: a type is modified only when its id is absent from its line
RECURSIVE NewLoop_NeverModified(_, _, _, _)
NewLoop_NeverModified(ids, current_types, new_tag_types, acc) ==
    IF Len(ids) = 0 THEN acc
    ELSE LET type_id == ids[1]
         IN  NewLoop_NeverModified(Tail(ids), current_types, new_tag_types,
                 IF type_id \notin DOMAIN current_types
                 THEN [acc EXCEPT !.added = Append(@, type_id)]
                 ELSE acc)
\* compute_changes, first loop: over sorted(new_tag_types.keys())
RECURSIVE NewLoop(_, _, _, _)
NewLoop(ids, current_types, new_tag_types, acc) ==
    IF Len(ids) = 0 THEN acc
    ELSE LET type_id == ids[1]
         IN  NewLoop(Tail(ids), current_types, new_tag_types,
                 IF type_id \notin DOMAIN current_types
                 THEN [acc EXCEPT !.added = Append(@, type_id)]
                 ELSE IF NewLine(type_id, new_tag_types[type_id])
                             # current_types[type_id]
                 THEN [acc EXCEPT !.modified = Append(@, type_id)]
                 ELSE acc)
\* compute_changes, second loop: over sorted(current_types.keys())
RECURSIVE CurrentLoop(_, _, _)
CurrentLoop(ids, new_tag_types, acc) ==
    IF Len(ids) = 0 THEN acc
    ELSE CurrentLoop(Tail(ids), new_tag_types,
             IF ids[1] \notin DOMAIN new_tag_types
             THEN [acc EXCEPT !.removed = Append(@, ids[1])]
             ELSE acc)
compute_changes(current_types, new_tag_types) ==
    CurrentLoop(Sorted(DOMAIN current_types), new_tag_types,
        NewLoop(Sorted(DOMAIN new_tag_types), current_types, new_tag_types,
            [added |-> <<>>, removed |-> <<>>, modified |-> <<>>]))

\* variant: the lines of the block are written without the closing comma
generate_fallback_content_NoComma(new_tag_types) ==
    LET ids == Sorted(DOMAIN new_tag_types)
    IN  IF Len(ids) = 0 THEN <<<<>>>>
        ELSE [i \in 1..Len(ids) |->
                 ENTRY_INDENT \o Decimal(ids[i]) \o <<":", " ">>
                     \o JsonDumps(new_tag_types[ids[i]])]
\* generate_fallback_content: the lines of the new block; "\n".join of no
\* line is the empty text, which is one empty line
generate_fallback_content(new_tag_types) ==
    LET ids == Sorted(DOMAIN new_tag_types)
    IN  IF Len(ids) = 0 THEN <<<<>>>>
        ELSE [i \in 1..Len(ids) |-> FallbackLine(ids[i], new_tag_types[ids[i]])]

\* update_tag_types_file, given the match
update_tag_types_file(content, new_fallback) ==
    LET match == FallbackSearch(content)
    IN  SubSeq(content, 1, match.open) \o new_fallback
            \o SubSeq(content, match.close, Len(content))

\* the lines a fallback block may hold before the first run
HandWritten100 ==
    <<" ", " ", " ", " ", "0", "1", "0", "0", ":", " ", "{", "\"", "v",
      "e", "r", "s", "i", "o", "n", "\"", ":", "1", "}", ",">>
CommentLine ==
    <<" ", " ", " ", " ", " ", " ", " ", " ", " ", " ", " ", " ", "#",
      " ", "1", "7", ":", " ", "o", "l", "d">>
TagBlockLines ==
    {FallbackLine(2, 1), FallbackLine(17, 2), FallbackLine(100, 1),
     HandWritten100, CommentLine, <<>>}
TagBlocks == UNION {[1..k -> TagBlockLines] : k \in 1..MaxLines}
ClassLine ==
    <<"c", "l", "a", "s", "s", " ", "F", "o", "o", ":">>
AfterLine ==
    <<" ", " ", " ", " ", " ", " ", " ", " ", "s", "e", "l", "f", ".",
      "_", "t", "a", "g", "_", "t", "y", "p", "e", "s", " ", "=", " ",
      "{", "}">>
\* tag_types.py before the first run: with a block, with the opening and
\* the closing on adjacent lines, and with no block
TagFiles ==
    {<<ClassLine, FALLBACK_OPEN>> \o block \o <<FALLBACK_CLOSE, AfterLine>> :
         block \in TagBlocks}
    \cup {<<ClassLine, FALLBACK_OPEN, FALLBACK_CLOSE, AfterLine>>,
          <<ClassLine, AfterLine>>}

TagsInit ==
    /\ UpdIdle
    /\ SetupIdle
    /\ ChkIdle
    /\ EspIdle
    /\ DfuIdle
    /\ ParseIdle
    /\ InstIdle
    /\ tags_pc = "ready"
    /\ tag_types_py \in TagFiles
    /\ input_file = <<>>
    /\ added = <<>>
    /\ removed = <<>>
    /\ modified = <<>>
    /\ changed = FALSE
    /\ main_runs = 0

\* main() on the file as it is, with the definitions loaded from the input
\* file: sys.exit(1) when the block is not found, else the file rewritten
\* and changed= reported
Main(input) ==
    /\ tags_pc = "ready"
    /\ main_runs < MaxRuns
    /\ main_runs' = main_runs + 1
    /\ input_file' = input
    /\ IF ~FallbackSearch(tag_types_py).found
       THEN /\ tags_pc' = "exit1"
            /\ UNCHANGED <<tag_types_py, added, removed, modified, changed>>
       ELSE LET current_types == parse_current_definitions(tag_types_py)
                changes == compute_changes(current_types, input)
            IN  /\ added' = changes.added
                /\ removed' = changes.removed
                /\ modified' = changes.modified
                /\ changed' = (changes.added # <<>> \/ changes.removed # <<>>
                                   \/ changes.modified # <<>>)
                /\ tag_types_py' = update_tag_types_file(tag_types_py,
                                  generate_fallback_content(input))
                /\ tags_pc' = "ready"
    /\ UNCHANGED <<setupVars, updVars, chkVars, espVars, dfuVars, parseVars, instVars>>

TagsNext == \E input \in TagInputs : Main(input)

SpecTags == TagsInit /\ [][TagsNext]_vars

(***************************************************************************)
(* OpenDisplayBleUpdateEntity.async_update: the latest release is asked of *)
(* GitHub at most once per CACHE_DURATION.  Time is counted in hours;      *)
(* utcnow is the clock, which moves on at any moment, also while a request *)
(* is awaited.  checks lists the requests made: when, and what came back.  *)
(***************************************************************************)
MaxClock == 8
MaxPolls == 3
CACHE_DURATION == 6

\* the spellings of a release tag and of a version, as characters
TagTable ==
    <<<<"v1.3", <<"v", "1", ".", "3">>>>,
      <<"1.3", <<"1", ".", "3">>>>,
      <<"1.4", <<"1", ".", "4">>>>,
      <<"v", <<"v">>>>,
      <<"", <<>>>>>>
TagChars(tag) == TagTable[CHOOSE k \in 1..Len(TagTable) : TagTable[k][1] = tag][2]
TagString(chars) == TagTable[CHOOSE k \in 1..Len(TagTable) : TagTable[k][2] = chars][1]
\* tag[1:] if tag.startswith("v") else tag
NormalizeTag(tag) ==
    LET chars == TagChars(tag)
    IN  TagString(IF Len(chars) >= 1 /\ chars[1] = "v" THEN Tail(chars) ELSE chars)

\* what the request may come back with: the JSON of a release, with
\* tag_name and name each absent ("None"), empty or set, or an error
UpdResponses ==
    {[error |-> "none", tag_name |-> t, name |-> n] :
         t \in {"None", "", "v1.3"}, n \in {"None", "1.4"}}
    \cup {[error |-> e, tag_name |-> "None", name |-> "None"] :
              e \in {"404", "timeout"}}
\* data.get("tag_name") or data.get("name")
TagOf(data) ==
    IF data.tag_name \notin {"None", ""} THEN data.tag_name ELSE data.name

UpdInit ==
    /\ ChkIdle
    /\ EspIdle
    /\ DfuIdle
    /\ ParseIdle
    /\ InstIdle
    /\ TagsIdle
    /\ SetupIdle
    /\ upd_pc = "ready"
    /\ utcnow = 0
    /\ upd_now = 0
    /\ last_checked = NO_TIME
    /\ last_fetch_error = "None"
    /\ checks = <<>>
    /\ polls = 0

\* the clock moves on by an hour or by five
UpdTick(hours) ==
    /\ upd_pc \in {"ready", "request"}
    /\ utcnow + hours <= MaxClock
    /\ utcnow' = utcnow + hours
    /\ UNCHANGED <<setupVars, tagVars, instVars, parseVars, chkVars, espVars, dfuVars,
                   upd_pc, upd_now, last_checked, last_fetch_error, checks, polls>>

\* async_update up to the request: the installed version is computed anew
\* from the metadata, then the cache is tested
UpdStart(fw) ==
    /\ upd_pc = "ready"
    /\ polls < MaxPolls
    /\ installed_version' = fw
    /\ upd_now' = utcnow
    /\ polls' = polls + 1
    /\ IF last_checked # NO_TIME /\ utcnow - last_checked < CACHE_DURATION
       THEN UNCHANGED <<upd_pc, checks>>
       ELSE /\ upd_pc' = "request"
            /\ checks' = Append(checks, [at |-> utcnow, result |-> "pending",
                                         version |-> "None"])
    /\ UNCHANGED <<setupVars, tagVars, parseVars, chkVars, espVars, dfuVars, utcnow,
                   last_checked, last_fetch_error, second_call, inst_pc, ic_type,
                   inst_version, latest_version, target_version, is_updating,
                   in_progress, inst_data, inst_log, inst_error>>

\* variant: a response without a tag counts as a check
UpdResponse_NoTagCounts(data) ==
    /\ upd_pc = "request"
    /\ upd_pc' = "ready"
    /\ IF data.error # "none"
       THEN /\ last_fetch_error' = data.error
            /\ checks' = [checks EXCEPT ![Len(checks)].result = "failed"]
            /\ UNCHANGED <<latest_version, last_checked>>
       ELSE IF TagOf(data) \in {"None", ""}
       THEN /\ checks' = [checks EXCEPT ![Len(checks)].result = "no_tag"]
            /\ last_checked' = upd_now
            /\ UNCHANGED <<latest_version, last_fetch_error>>
       ELSE /\ latest_version' = NormalizeTag(TagOf(data))
            /\ last_checked' = upd_now
            /\ last_fetch_error' = "None"
            /\ checks' = [checks EXCEPT ![Len(checks)] =
                             [at |-> @.at, result |-> "ok",
                              version |-> NormalizeTag(TagOf(data))]]
    /\ UNCHANGED <<setupVars, tagVars, parseVars, chkVars, espVars, dfuVars, utcnow,
                   upd_now, polls, second_call, inst_pc, ic_type, inst_version,
                   target_version, installed_version, is_updating, in_progress,
                   inst_data, inst_log, inst_error>>

\* async_update from the request on: an error is logged and kept as the
\* last one; a release without a tag changes nothing; a release with a tag
\* gives the latest version and the time of the check
UpdResponse(data) ==
    /\ upd_pc = "request"
    /\ upd_pc' = "ready"
    /\ IF data.error # "none"
       THEN /\ last_fetch_error' = data.error
            /\ checks' = [checks EXCEPT ![Len(checks)].result = "failed"]
            /\ UNCHANGED <<latest_version, last_checked>>
       ELSE IF TagOf(data) \in {"None", ""}
       THEN /\ checks' = [checks EXCEPT ![Len(checks)].result = "no_tag"]
            /\ UNCHANGED <<latest_version, last_checked, last_fetch_error>>
       ELSE /\ latest_version' = NormalizeTag(TagOf(data))
            /\ last_checked' = upd_now
            /\ last_fetch_error' = "None"
            /\ checks' = [checks EXCEPT ![Len(checks)] =
                             [at |-> @.at, result |-> "ok",
                              version |-> NormalizeTag(TagOf(data))]]
    /\ UNCHANGED <<setupVars, tagVars, parseVars, chkVars, espVars, dfuVars, utcnow,
                   upd_now, polls, second_call, inst_pc, ic_type, inst_version,
                   target_version, installed_version, is_updating, in_progress,
                   inst_data, inst_log, inst_error>>

UpdNext ==
    \/ \E hours \in {1, 5} : UpdTick(hours)
    \/ \E fw \in {"None", "1.0"} : UpdStart(fw)
    \/ \E data \in UpdResponses : UpdResponse(data)

SpecUpdate == UpdInit /\ [][UpdNext]_vars

(***************************************************************************)
(* async_setup_entry: the update entity of a BLE entry follows the Labs    *)
(* feature.  _sync_feature_state runs once at setup and at every event of  *)
(* the feature.  An entity is known by the number of its creation.         *)
(* platform_entities holds the entities given to async_add_entities and    *)
(* not yet removed, removal_tasks the _remove_entity tasks created and not *)
(* yet run, setup_log the additions and the removals scheduled, in order.  *)
(***************************************************************************)
MaxToggles == 6

SetupInit ==
    /\ ChkIdle
    /\ EspIdle
    /\ DfuIdle
    /\ ParseIdle
    /\ InstIdle
    /\ TagsIdle
    /\ UpdIdle
    /\ setup_pc = "setup"
    /\ is_ble \in BOOLEAN
    /\ is_open_display \in BOOLEAN
    /\ is_ble \/ ~is_open_display
    /\ labs_enabled \in BOOLEAN
    /\ added_entity = NO_ENTITY
    /\ created = 0
    /\ platform_entities = {}
    /\ removal_tasks = {}
    /\ setup_log = <<>>
    /\ toggles = 0

\* variant: the entity is kept in `added` when the feature is disabled
SyncFeatureState_NoPop(enabled) ==
    IF enabled /\ added_entity = NO_ENTITY
    THEN IF ~is_open_display
         THEN UNCHANGED <<added_entity, created, platform_entities, removal_tasks,
                          setup_log>>
         ELSE /\ created' = created + 1
              /\ added_entity' = created + 1
              /\ platform_entities' = platform_entities \cup {created + 1}
              /\ setup_log' = Append(setup_log, <<"add", created + 1>>)
              /\ UNCHANGED removal_tasks
    ELSE IF ~enabled /\ added_entity # NO_ENTITY
    THEN /\ removal_tasks' = removal_tasks \cup {added_entity}
         /\ setup_log' = Append(setup_log, <<"remove", added_entity>>)
         /\ UNCHANGED <<added_entity, created, platform_entities>>
    ELSE UNCHANGED <<added_entity, created, platform_entities, removal_tasks,
                     setup_log>>

\* _sync_feature_state, with the feature state it reads
SyncFeatureState(enabled) ==
    IF enabled /\ added_entity = NO_ENTITY
    THEN IF ~is_open_display
         THEN UNCHANGED <<added_entity, created, platform_entities, removal_tasks,
                          setup_log>>
         ELSE /\ created' = created + 1
              /\ added_entity' = created + 1
              /\ platform_entities' = platform_entities \cup {created + 1}
              /\ setup_log' = Append(setup_log, <<"add", created + 1>>)
              /\ UNCHANGED removal_tasks
    ELSE IF ~enabled /\ added_entity # NO_ENTITY
    THEN /\ added_entity' = NO_ENTITY
         /\ removal_tasks' = removal_tasks \cup {added_entity}
         /\ setup_log' = Append(setup_log, <<"remove", added_entity>>)
         /\ UNCHANGED <<created, platform_entities>>
    ELSE UNCHANGED <<added_entity, created, platform_entities, removal_tasks,
                     setup_log>>

\* async_setup_entry: nothing for an entry that is not BLE; else the
\* listener is registered and the current state applied
SetupEntry ==
    /\ setup_pc = "setup"
    /\ IF ~is_ble
       THEN /\ setup_pc' = "not_ble"
            /\ UNCHANGED <<added_entity, created, platform_entities, removal_tasks,
                           setup_log>>
       ELSE /\ setup_pc' = "listening"
            /\ SyncFeatureState(labs_enabled)
    /\ UNCHANGED <<updVars, tagVars, instVars, parseVars, chkVars, espVars, dfuVars,
                   is_ble, is_open_display, labs_enabled, toggles>>

\* an event of the Labs feature, which leaves it enabled or disabled; the
\* listener runs if there is one
LabsToggle(enabled) ==
    /\ setup_pc \in {"listening", "not_ble"}
    /\ toggles < MaxToggles
    /\ toggles' = toggles + 1
    /\ labs_enabled' = enabled
    /\ IF setup_pc = "listening"
       THEN SyncFeatureState(enabled)
       ELSE UNCHANGED <<added_entity, created, platform_entities, removal_tasks,
                        setup_log>>
    /\ UNCHANGED <<updVars, tagVars, instVars, parseVars, chkVars, espVars, dfuVars,
                   setup_pc, is_ble, is_open_display>>

\* a _remove_entity task runs: entity.async_remove() and the registry entry
RemoveEntity(entity) ==
    /\ entity \in removal_tasks
    /\ removal_tasks' = removal_tasks \ {entity}
    /\ platform_entities' = platform_entities \ {entity}
    /\ UNCHANGED <<updVars, tagVars, instVars, parseVars, chkVars, espVars, dfuVars,
                   setup_pc, is_ble, is_open_display, labs_enabled, added_entity,
                   created, setup_log, toggles>>

SetupNext ==
    \/ SetupEntry
    \/ \E enabled \in BOOLEAN : LabsToggle(enabled)
    \/ \E entity \in removal_tasks : RemoveEntity(entity)

SpecSetup == SetupInit /\ [][SetupNext]_vars

(***************************************************************************)
(* The whole system: one update call of either engine, one validator call  *)
(* on an arbitrary response, one parser call on a container, one           *)
(* async_install call of the entity, runs of the tag type sync, polls of   *)
(* the entity, or the setup of an entry with events of its feature.       *)
(***************************************************************************)
Init == EspInit \/ DfuInit \/ ChkInit \/ ParseInit \/ InstInit \/ TagsInit
            \/ UpdInit \/ SetupInit

Next == EspNext \/ DfuNext \/ ChkNext \/ ParseNext \/ InstNext \/ TagsNext
            \/ UpdNext \/ SetupNext

Spec == Init /\ [][Next]_vars

(***************************************************************************)
(* Properties of perform_esp32_ota                                         *)
(***************************************************************************)
IsCmd(w, cmd) == Len(w) >= 2 /\ SubSeq(w, 1, 2) = cmd
Payload(w) == SubSeq(w, 3, Len(w))
U32LE(b) == b[1] + 256 * b[2] + 65536 * b[3] + 16777216 * b[4]
EspDataWrites == SelectSeq(esp_writes, LAMBDA w : IsCmd(w, CMD_OTA_DATA))
EspEndWrites == SelectSeq(esp_writes, LAMBDA w : IsCmd(w, CMD_OTA_END))
CeilDiv(n, d) == (n + d - 1) \div d

\* C1: the first command written is START carrying len(firmware) as a 4-byte
\* little-endian value and START is written only once; a command is written
\* only when every earlier command's ack has validated (acks validate in the
\* order of the writes); END is written at most once, as the last command,
\* and only when offset = total_size = the number of bytes sent in DATA
\* commands; the call has returned True only if the END ack has validated.
C1_EspOrdering ==
    LET n == Len(esp_writes)
        v == Len(esp_validated)
    IN  /\ n >= 1 =>
              /\ IsCmd(esp_writes[1], CMD_OTA_START)
              /\ Len(Payload(esp_writes[1])) = 4
              /\ U32LE(Payload(esp_writes[1])) = Len(firmware_data)
              /\ total_size = Len(firmware_data)
        /\ \A i \in 2..n : ~IsCmd(esp_writes[i], CMD_OTA_START)
        /\ \A i \in 2..n : IsCmd(esp_writes[i], CMD_OTA_DATA)
                              \/ esp_writes[i] = CMD_OTA_END
        /\ v <= n /\ n <= v + 1
        /\ \A i \in 1..v : esp_validated[i] = esp_writes[i][2]
        /\ \A i \in 1..n : IsCmd(esp_writes[i], CMD_OTA_END) =>
              /\ i = n
              /\ v >= n - 1
              /\ offset = total_size
              /\ SumLen([j \in 1..Len(EspDataWrites) |-> Payload(EspDataWrites[j])])
                    = total_size
        /\ Len(EspEndWrites) <= 1
        /\ esp_returned =>
              /\ n >= 2
              /\ esp_writes[n] = CMD_OTA_END
              /\ v = n
              /\ esp_validated[n] = ECHO_END

\* C1 witness: the 1000-byte firmware, START + 5 DATA + END, returned True
C1_Witness ==
    /\ esp_returned
    /\ Len(firmware_data) = 1000
    /\ Len(esp_writes) = 7
    /\ Len(EspDataWrites) = 5

\* C2: a successful call has issued exactly ceil(N / 200) DATA commands whose
\* payload lengths sum to N; every DATA command ever written carries at least
\* 1 and at most 200 bytes.
C2_EspChunkCount ==
    /\ \A i \in 1..Len(EspDataWrites) :
          /\ Len(Payload(EspDataWrites[i])) >= 1
          /\ Len(Payload(EspDataWrites[i])) <= ESP32_OTA_CHUNK_SIZE
    /\ esp_returned =>
          /\ Len(EspDataWrites) = CeilDiv(Len(firmware_data), ESP32_OTA_CHUNK_SIZE)
          /\ SumLen([j \in 1..Len(EspDataWrites) |-> Payload(EspDataWrites[j])])
                = Len(firmware_data)

\* C2 witness: a successful call whose last chunk is a single byte
C2_Witness ==
    /\ esp_returned
    /\ Len(firmware_data) = 801
    /\ Len(EspDataWrites) = 5
    /\ Len(Payload(EspDataWrites[5])) = 1

\* C4: the call goes on from an await only with a response that passes
\* validation for the command just written; otherwise (and on a timeout) it
\* raises, and the raising step writes no command, invokes no callback and
\* does not advance the offset; once it has raised, the call takes no step.
C4_EspAbortOnFirstFailure ==
    [][ /\ esp_raised = "none"
        /\ esp_raised' # "none" =>
              /\ esp_writes' = esp_writes
              /\ esp_progress' = esp_progress
              /\ esp_validated' = esp_validated
              /\ offset' = offset
              /\ ~esp_returned'
              /\ esp_pc' = "raised"
        /\ (esp_pc \in {"await_start", "await_data", "await_end"}
              /\ esp_raised' = "none") =>
              CheckOtaResponse(response', esp_writes[Len(esp_writes)][2]) = "ok"
      ]_vars

\* C4 witness: a DATA chunk was refused after an earlier chunk had been
\* acknowledged; the failed chunk is the last command written
C4_Witness ==
    /\ esp_pc = "raised"
    /\ esp_raised = "unexpected"
    /\ Len(esp_progress) = 1
    /\ Len(EspDataWrites) = 2
    /\ offset < total_size
    /\ IsCmd(esp_writes[Len(esp_writes)], CMD_OTA_DATA)

(***************************************************************************)
(* Properties of the response validators                                   *)
(***************************************************************************)
ChkDone == chk_outcome \notin {"idle", "pending"}

\* C6: a response shorter than 2 bytes (ESP32) or 3 bytes (Nordic) makes the
\* validator raise its too-short error, whatever command / opcode is
\* expected; it is never accepted.
C6_ShortResponseRejected ==
    ChkDone =>
        /\ (chk_which = "ota" /\ Len(chk_response) < 2) => chk_outcome = "too_short"
        /\ (chk_which = "dfu" /\ Len(chk_response) < 3) => chk_outcome = "too_short"

\* C6 witness: a 2-byte Nordic response that is otherwise well formed
C6_Witness ==
    /\ chk_which = "dfu"
    /\ chk_response = <<OP_RESPONSE, chk_expected>>
    /\ chk_outcome = "too_short"

\* C7: an ESP32 response of at least 2 bytes whose status is RESP_ERROR
\* yields the rejection error whatever the echoed command byte is.
C7_ErrorStatusRejected ==
    (ChkDone /\ chk_which = "ota" /\ Len(chk_response) >= 2
        /\ chk_response[1] = RESP_ERROR) => chk_outcome = "rejected"

\* C7 witness: error status with the echo of the command just sent
C7_Witness ==
    /\ chk_which = "ota"
    /\ chk_response = <<RESP_ERROR, chk_expected>>
    /\ chk_outcome = "rejected"

\* C8: the ESP32 validator accepts exactly the responses of at least 2 bytes
\* with status RESP_SUCCESS and second byte = the expected command byte (the
\* low byte of the command written: 0x46, 0x47, 0x48); any other response of
\* at least 2 bytes whose status is not RESP_ERROR yields the
\* unexpected-response error; later bytes play no part.
C8_OtaAcceptance ==
    /\ ECHO_START = CMD_OTA_START[2]
    /\ ECHO_DATA = CMD_OTA_DATA[2]
    /\ ECHO_END = CMD_OTA_END[2]
    /\ (ChkDone /\ chk_which = "ota") =>
          LET good == /\ Len(chk_response) >= 2
                      /\ chk_response[1] = RESP_SUCCESS
                      /\ chk_response[2] = chk_expected
          IN  /\ chk_outcome = "ok" <=> good
              /\ (Len(chk_response) >= 2 /\ chk_response[1] # RESP_ERROR /\ ~good)
                    => chk_outcome = "unexpected"

\* C8 witness: an accepted response with a third byte
C8_Witness ==
    /\ chk_which = "ota"
    /\ Len(chk_response) = 3
    /\ chk_response[3] = RESP_ERROR
    /\ chk_outcome = "ok"

\* C9: a Nordic response whose second byte is not the expected opcode makes
\* the validator raise; with 0x60 first and at least 3 bytes the error is
\* the wrong-opcode error, also when the result code is SUCCESS.
C9_WrongOpcodeRejected ==
    (ChkDone /\ chk_which = "dfu" /\ Len(chk_response) >= 2
        /\ chk_response[2] # chk_expected) =>
        /\ chk_outcome \in {"too_short", "bad_response_opcode", "wrong_opcode"}
        /\ (Len(chk_response) >= 3 /\ chk_response[1] = OP_RESPONSE)
              => chk_outcome = "wrong_opcode"

\* C9 witness: 0x60, the opcode of another command, SUCCESS
C9_Witness ==
    /\ chk_which = "dfu"
    /\ chk_expected = OP_EXECUTE
    /\ chk_response = <<OP_RESPONSE, OP_CALCULATE_CRC, RES_SUCCESS>>
    /\ chk_outcome = "wrong_opcode"

(***************************************************************************)
(* Properties of the engines                                               *)
(***************************************************************************)
\* the calls in p report non-decreasing byte counts, none above the total n
ProgressOrdered(p, n) ==
    \A i \in 1..Len(p) :
        /\ p[i][2] = n
        /\ p[i][1] <= n
        /\ i > 1 => p[i - 1][1] <= p[i][1]

\* the last call in p reports (n, n)
ProgressComplete(p, n) == Len(p) >= 1 /\ p[Len(p)] = <<n, n>>

StopNotifyOp == [op |-> "stop_notify", char |-> "control", data |-> <<>>]
DfuStopCount == Len(SelectSeq(gatt_ops, LAMBDA o : o.op = "stop_notify"))

C10_DfuAcceptance ==
    [][ /\ (ChkDone' /\ chk_which' = "dfu") =>
              LET good == /\ Len(chk_response') >= 3
                          /\ chk_response'[1] = OP_RESPONSE
                          /\ chk_response'[2] = chk_expected'
                          /\ chk_response'[3] = RES_SUCCESS
              IN  /\ chk_outcome' = "ok" <=> good
                  /\ (Len(chk_response') >= 3 /\ chk_response'[1] = OP_RESPONSE
                        /\ chk_response'[2] = chk_expected' /\ ~good)
                        => chk_outcome' = "failed"
        /\ (cp_pc = "waiting" /\ response_event /\ cp_pc' = "idle") =>
              LET good == /\ Len(response_data) >= 3
                          /\ response_data[1] = OP_RESPONSE
                          /\ response_data[2] = DfuExpected(dfu_pc)
                          /\ response_data[3] = RES_SUCCESS
              IN  /\ dfu_response' = response_data
                  /\ good <=> dfu_error' = "none"
                  /\ good <=> dfu_validated' # dfu_validated
                  /\ ~good => /\ dfu_pc' = "stop"
                              /\ dfu_progress' = dfu_progress
                              /\ gatt_ops' = gatt_ops
      ]_vars

\* C10 witness: a result code that is none of the recognised ones
C10_Witness ==
    /\ chk_which = "dfu"
    /\ chk_response = <<OP_RESPONSE, chk_expected, 7>>
    /\ chk_outcome = "failed"

(***************************************************************************)
(* Nordic engine: the calls logged in gatt_ops                             *)
(***************************************************************************)
IsControlWrite(o) == o.op = "write" /\ o.char = "control"
IsPacketWrite(o) == o.op = "write" /\ o.char = "packet"
IsCreate(o, type) ==
    /\ IsControlWrite(o)
    /\ Len(o.data) = 6
    /\ o.data[1] = OP_CREATE
    /\ o.data[2] = type
CreateSize(o) == U32LE(SubSeq(o.data, 3, 6))
RECURSIVE SumSeq(_)
SumSeq(s) == IF s = <<>> THEN 0 ELSE Head(s) + SumSeq(Tail(s))

\* the position after the run of packet writes that follows call i
PacketRunEnd(i) ==
    CHOOSE j \in (i + 1)..(Len(gatt_ops) + 1) :
        /\ \A k \in (i + 1)..(j - 1) : IsPacketWrite(gatt_ops[k])
        /\ j = Len(gatt_ops) + 1 \/ ~IsPacketWrite(gatt_ops[j])
\* the packets written after call i up to the next call that is no packet
PacketRun(i) == [k \in 1..(PacketRunEnd(i) - i - 1) |-> gatt_ops[i + k].data]
\* the run is closed by a control-point write (the CALCULATE_CRC)
PacketRunClosed(i) ==
    /\ PacketRunEnd(i) <= Len(gatt_ops)
    /\ IsControlWrite(gatt_ops[PacketRunEnd(i)])

\* the sizes declared by the CREATE(DATA) commands, in the order written
DataCreateSizes ==
    LET creates == SelectSeq(gatt_ops, LAMBDA o : IsCreate(o, OBJ_DATA))
    IN  [k \in 1..Len(creates) |-> CreateSize(creates[k])]

\* C11: every CREATE(DATA, size) declares size = min(4096, bytes remaining),
\* which is never 0; every packet written carries 1..200 bytes; the packets
\* that follow a CREATE(DATA) never exceed its declared size and sum to it
\* once the object's CALCULATE_CRC is written; a firmware transfer that
\* succeeds has written exactly ceil(N / 4096) CREATE(DATA) commands whose
\* sizes sum to N.
C11_DataObjects ==
    LET N == Len(firmware)
        sizes == DataCreateSizes
    IN  /\ \A i \in 1..Len(gatt_ops) :
              /\ IsPacketWrite(gatt_ops[i]) =>
                    /\ Len(gatt_ops[i].data) >= 1
                    /\ Len(gatt_ops[i].data) <= DFU_PACKET_SIZE
              /\ IsCreate(gatt_ops[i], OBJ_DATA) =>
                    /\ SumLen(PacketRun(i)) <= CreateSize(gatt_ops[i])
                    /\ PacketRunClosed(i) =>
                          SumLen(PacketRun(i)) = CreateSize(gatt_ops[i])
        /\ \A k \in 1..Len(sizes) :
              /\ sizes[k] >= 1
              /\ sizes[k] = Min(DFU_DATA_OBJECT_MAX_SIZE,
                                N - SumSeq(SubSeq(sizes, 1, k - 1)))
        /\ dfu_result = "true" =>
              /\ Len(sizes) = CeilDiv(N, DFU_DATA_OBJECT_MAX_SIZE)
              /\ SumSeq(sizes) = N

\* C11 witness: 4097 bytes went out as a full object and a 1-byte object
C11_Witness ==
    /\ dfu_result = "true"
    /\ Len(firmware) = DFU_DATA_OBJECT_MAX_SIZE + 1
    /\ DataCreateSizes = <<DFU_DATA_OBJECT_MAX_SIZE, 1>>
    /\ \E i \in 1..Len(gatt_ops) :
          /\ IsCreate(gatt_ops[i], OBJ_DATA)
          /\ Len(PacketRun(i)) = 21
          /\ Len(PacketRun(i)[21]) = 96

\* the control-point commands written so far, in order
ControlWrites ==
    LET w == SelectSeq(gatt_ops, IsControlWrite)
    IN  [k \in 1..Len(w) |-> w[k].data]
\* the position in gatt_ops of the k-th control-point write
ControlWriteIndex(k) ==
    CHOOSE i \in 1..Len(gatt_ops) :
        /\ IsControlWrite(gatt_ops[i])
        /\ Len(SelectSeq(SubSeq(gatt_ops, 1, i), IsControlWrite)) = k
StartNotifyOp == [op |-> "start_notify", char |-> "control", data |-> <<>>]

\* C12: the first call on the client is the control-point subscription and
\* commands are written only while it is in place; the first six commands
\* are SET_PRN(0), SELECT(COMMAND), CREATE(COMMAND, len(init_packet)),
\* CALCULATE_CRC, EXECUTE, SELECT(DATA) in this order, the k-th written only
\* when the k-1 before it have validated; the init packet's bytes are
\* written only after its CREATE has validated and all of them before its
\* CALCULATE_CRC; there is one CREATE(COMMAND) whatever the packet's length.
C12_InitSequence ==
    LET cw == ControlWrites
        expected == <<OP_SET_PRN, OP_SELECT, OP_CREATE, OP_CALCULATE_CRC,
                      OP_EXECUTE, OP_SELECT>>
    IN  /\ gatt_ops # <<>> => gatt_ops[1] = StartNotifyOp
        /\ (cw # <<>> /\ dfu_pc \notin {"disconnect", "exited"}) => notify_handler
        /\ Len(dfu_validated) <= Len(cw)
        /\ Len(cw) <= Len(dfu_validated) + 1
        /\ \A k \in 1..Len(dfu_validated) : dfu_validated[k] = cw[k][1]
        /\ \A k \in 1..Min(Len(cw), 6) : cw[k][1] = expected[k]
        /\ Len(cw) >= 1 => cw[1] = <<OP_SET_PRN, 0, 0>>
        /\ Len(cw) >= 2 => cw[2] = <<OP_SELECT, OBJ_COMMAND>>
        /\ Len(cw) >= 3 =>
              /\ IsCreate(gatt_ops[ControlWriteIndex(3)], OBJ_COMMAND)
              /\ CreateSize(gatt_ops[ControlWriteIndex(3)]) = Len(init_packet)
              /\ SumLen(PacketRun(ControlWriteIndex(3))) <= Len(init_packet)
        /\ Len(cw) >= 4 =>
              /\ cw[4] = <<OP_CALCULATE_CRC>>
              /\ SumLen(PacketRun(ControlWriteIndex(3))) = Len(init_packet)
        /\ Len(cw) >= 5 => cw[5] = <<OP_EXECUTE>>
        /\ Len(cw) >= 6 => cw[6] = <<OP_SELECT, OBJ_DATA>>
        /\ Len(SelectSeq(gatt_ops, LAMBDA o : IsCreate(o, OBJ_COMMAND))) <= 1
        /\ \A i \in 1..Len(gatt_ops) :
              IsPacketWrite(gatt_ops[i]) =>
                  /\ Len(cw) >= 3
                  /\ i > ControlWriteIndex(3)
                  /\ Len(dfu_validated) >= 3

\* C12 witness: an init packet longer than a data object went out as one
\* command object of 21 packets and SELECT(DATA) has been written after it
C12_Witness ==
    /\ Len(init_packet) = DFU_DATA_OBJECT_MAX_SIZE + 1
    /\ Len(ControlWrites) >= 6
    /\ ControlWrites[6] = <<OP_SELECT, OBJ_DATA>>
    /\ Len(dfu_validated) >= 5
    /\ Len(PacketRun(ControlWriteIndex(3))) = 21

\* the number of data objects whose EXECUTE has validated: the responses
\* after the six of the init sequence come in threes
DataObjectsExecuted ==
    IF Len(dfu_validated) <= 6 THEN 0 ELSE (Len(dfu_validated) - 6) \div 3

\* C13: after SELECT(DATA) the commands are CREATE(DATA), CALCULATE_CRC,
\* EXECUTE in rounds, each written only when all earlier ones have
\* validated, so no CREATE precedes the validation of the previous EXECUTE;
\* an object's CALCULATE_CRC is written only after all its bytes; the offset
\* is the sum of the sizes of the objects whose EXECUTE has validated, and
\* the callback has been invoked once per such object with (that sum, N),
\* never earlier; 5000 bytes go as objects of 4096 and 904 with the calls
\* (4096, 5000) and (5000, 5000).
C13_DataObjectSteps ==
    LET cw == ControlWrites
        sizes == DataCreateSizes
        done == DataObjectsExecuted
        N == Len(firmware)
        round == <<OP_CREATE, OP_CALCULATE_CRC, OP_EXECUTE>>
    IN  /\ Len(cw) <= Len(dfu_validated) + 1
        /\ \A k \in 7..Len(cw) :
              /\ cw[k][1] = round[((k - 7) % 3) + 1]
              /\ (k - 7) % 3 = 0 <=> IsCreate(gatt_ops[ControlWriteIndex(k)], OBJ_DATA)
              /\ (k - 7) % 3 = 1 =>
                    SumLen(PacketRun(ControlWriteIndex(k - 1)))
                        = CreateSize(gatt_ops[ControlWriteIndex(k - 1)])
        /\ \A k \in 7..Len(dfu_validated) : dfu_validated[k] = round[((k - 7) % 3) + 1]
        /\ Len(sizes) >= done
        /\ Len(sizes) <= done + 1
        /\ dfu_offset = SumSeq(SubSeq(sizes, 1, done))
        /\ Len(dfu_progress) = IF dfu_callback THEN done ELSE 0
        /\ \A m \in 1..Len(dfu_progress) :
              dfu_progress[m] = <<SumSeq(SubSeq(sizes, 1, m)), N>>
        /\ (N = 5000 /\ dfu_result = "true") =>
              /\ sizes = <<4096, 904>>
              /\ dfu_callback => dfu_progress = <<<<4096, 5000>>, <<5000, 5000>>>>

\* C13 witness: the 5000-byte transfer has succeeded with its two calls
C13_Witness ==
    /\ Len(firmware) = 5000
    /\ dfu_result = "true"
    /\ dfu_callback
    /\ dfu_progress = <<<<4096, 5000>>, <<5000, 5000>>>>
    /\ DataObjectsExecuted = 2

\* the connection is up and the controller has been created
DfuControllerCreated ==
    /\ dfu_pc \notin {"idle", "parse", "scan", "connect"}
    /\ dfu_result # "false"
    /\ dfu_error \notin {"ValueError", "connect_error"}

\* C16: stop_notify is called at most once and no call on the client follows
\* it, so it never precedes a control-point or packet write; it is not
\* called while the protocol still runs nor without a controller; once the
\* try block is left, by success, by an error of start, send_init_packet or
\* send_firmware, or by cancellation, it has been called exactly once.
C16_UnsubscribeOnce ==
    /\ DfuStopCount <= 1
    /\ \A i \in 1..Len(gatt_ops) :
          gatt_ops[i].op = "stop_notify" =>
              /\ i = Len(gatt_ops)
              /\ gatt_ops[i] = StopNotifyOp
    /\ DfuStopCount = 1 =>
          /\ DfuControllerCreated
          /\ dfu_pc \in {"disconnect", "exited"}
    /\ (DfuControllerCreated /\ dfu_pc \in {"disconnect", "exited"}) =>
          DfuStopCount = 1
    /\ (dfu_pc = "exited" /\ DfuControllerCreated) =>
          /\ dfu_result \in {"true", "raised"}
          /\ dfu_result = "true" <=> dfu_error = "none"

\* C16 witness: the task was cancelled while a firmware packet was being
\* written; the call ended with the cancellation after one stop_notify
C16_Witness ==
    /\ dfu_pc = "exited"
    /\ dfu_error = "cancelled"
    /\ dfu_result = "raised"
    /\ DfuStopCount = 1
    /\ Len(gatt_ops) >= 2
    /\ IsPacketWrite(gatt_ops[Len(gatt_ops) - 1])
    /\ Len(dfu_validated) >= 7

(***************************************************************************)
(* The two engines under the progress their code guarantees.  An ESP32     *)
(* exchange is a write_command_with_response call with timeout=10.0 or     *)
(* 15.0, so every step of that engine happens.  In the Nordic engine the   *)
(* scan is given scan_timeout, the connect timeout=15.0 and the wait for   *)
(* the notification is inside asyncio.wait_for(..., timeout=10.0); the     *)
(* awaits of start_notify, write_gatt_char and stop_notify are not inside  *)
(* any timeout, so their completion is left to the device and the stack.   *)
(***************************************************************************)
EngineInit == EspInit \/ DfuInit
EngineNext == EspNext \/ DfuNext
EngineDone == esp_pc \in {"done", "raised"} \/ dfu_pc = "exited"

SpecFair ==
    /\ EngineInit
    /\ [][EngineNext]_vars
    /\ WF_vars(EspNext)
    /\ WF_vars(DfuParse)
    /\ WF_vars(DfuScan)
    /\ WF_vars(\E ok \in BOOLEAN : DfuConnect(ok))
    /\ WF_vars(DfuCpWrite)
    /\ WF_vars(DfuCpTimeout \/ DfuCpResponse)
    /\ WF_vars(DfuDisconnect)

\* C14: every update call of either engine terminates even when the device
\* stops responding at an arbitrary suspension point.
C14_Terminates == <>EngineDone

\* C15: a wait for the control-point notification that ends without the
\* event set, other than by cancellation, raises the timeout error: nothing
\* is returned from the buffer, no response is validated and the protocol
\* stops; a response is returned only with the event set; a call that ends
\* after a timeout ends with that error, after one stop_notify as its last
\* call on the client.
C15_TimeoutFails ==
    [][ /\ (cp_pc = "waiting" /\ ~response_event /\ cp_pc' = "idle"
              /\ dfu_error' # "cancelled") =>
              /\ dfu_error' = "timeout"
              /\ dfu_pc' = "stop"
              /\ dfu_response' = dfu_response
              /\ dfu_validated' = dfu_validated
              /\ dfu_progress' = dfu_progress
        /\ (dfu_response' # dfu_response \/ dfu_validated' # dfu_validated) =>
              /\ cp_pc = "waiting"
              /\ response_event
        /\ dfu_error = "timeout" =>
              /\ dfu_error' = "timeout"
              /\ dfu_validated' = dfu_validated
        /\ (dfu_error = "timeout" /\ dfu_pc' = "exited") =>
              /\ dfu_result' = "raised"
              /\ DfuStopCount = 1
              /\ gatt_ops[Len(gatt_ops)] = StopNotifyOp
              /\ gatt_ops' = gatt_ops
      ]_vars

\* C15 witness: the call ended with the timeout error while the buffer held
\* a success response for the very command that timed out, left there by an
\* earlier notification
C15_Witness ==
    /\ dfu_pc = "exited"
    /\ dfu_result = "raised"
    /\ dfu_error = "timeout"
    /\ DfuStopCount = 1
    /\ ControlWrites # <<>>
    /\ response_data = <<OP_RESPONSE, ControlWrites[Len(ControlWrites)][1],
                         RES_SUCCESS>>
    /\ dfu_response # response_data

\* C17: the step of stop() leaves the pending outcome as it is whether
\* stop_notify succeeds or fails: the exception being propagated, or its
\* absence, is unchanged, and the call then ends with True when there is
\* none and with that exception otherwise; after the first error the
\* error never changes.
C17_StopFailureIgnored ==
    [][ /\ dfu_pc = "stop" =>
              /\ dfu_error' = dfu_error
              /\ dfu_pc' = "disconnect"
              /\ gatt_ops' = Append(gatt_ops, StopNotifyOp)
              /\ notify_handler' \in {FALSE, notify_handler}
        /\ dfu_pc = "disconnect" =>
              /\ dfu_error' = dfu_error
              /\ dfu_pc' = "exited"
              /\ dfu_result' = IF dfu_error = "none" THEN "true" ELSE "raised"
        /\ dfu_error # "none" => dfu_error' = dfu_error
      ]_vars

\* C17 witness: the transfer succeeded, stop_notify failed (the handler is
\* still registered) and the call returned True
C17_Witness ==
    /\ dfu_pc = "exited"
    /\ dfu_result = "true"
    /\ dfu_error = "none"
    /\ notify_handler
    /\ DfuStopCount = 1

\* C18 as stated: each control-point write clears both the response buffer
\* and the readiness signal before the GATT write.
C18_Original ==
    [][ (cp_pc = "idle" /\ cp_pc' = "writing") =>
              /\ response_event' = FALSE
              /\ response_data' = <<>>
      ]_vars

\* C18: each control-point write clears the readiness signal, and leaves the
\* response buffer as it is, in the step that issues the GATT write; the
\* signal is raised only by a step in which the handler stores a
\* notification in the buffer; the call returns a response only with the
\* signal raised, and what it returns is the buffer's content; otherwise it
\* leaves the wait by the timeout or by cancellation.
C18_ClearThenWait ==
    [][ /\ (cp_pc = "idle" /\ cp_pc' = "writing") =>
              /\ response_event' = FALSE
              /\ response_data' = response_data
              /\ gatt_ops' = Append(gatt_ops, [op |-> "write", char |-> "control",
                                                data |-> DfuCommand(dfu_pc)])
        /\ (~response_event /\ response_event') =>
              /\ response_data' \in DfuNotifications
              /\ notify_handler
              /\ gatt_ops' = gatt_ops
              /\ cp_pc' = cp_pc
        /\ (response_event /\ ~response_event') =>
              (cp_pc = "idle" /\ cp_pc' = "writing")
        /\ (cp_pc = "waiting" /\ cp_pc' = "idle") =>
              \/ /\ response_event
                 /\ dfu_response' = response_data
              \/ /\ ~response_event
                 /\ dfu_error' \in {"timeout", "cancelled"}
                 /\ dfu_response' = dfu_response
      ]_vars

\* C18 witness: a command is being written, the signal is cleared and the
\* buffer still holds the response to the command before it
C18_Witness ==
    /\ cp_pc = "writing"
    /\ ~response_event
    /\ Len(dfu_validated) >= 1
    /\ response_data = dfu_response
    /\ response_data = <<OP_RESPONSE, dfu_validated[Len(dfu_validated)], RES_SUCCESS>>

\* a control-point request is outstanding: written and not yet returned from
CpOutstanding == cp_pc \in {"writing", "waiting"}

\* C19: a control-point command is written only when none is outstanding,
\* so the commands written exceed the calls that have returned (with a
\* validated response or with the error that ended the protocol) by at most
\* one; once the controller exists the buffer changes only in a step of the
\* notification handler, which changes nothing but the buffer and the
\* signal; the buffer's content reaches the caller only in a step that
\* ends the wait of _write_control_point.
C19_SingleOutstanding ==
    [][ /\ (Len(ControlWrites') > Len(ControlWrites)) =>
              /\ ~CpOutstanding
              /\ CpOutstanding'
              /\ Len(ControlWrites') = Len(ControlWrites) + 1
              /\ Len(ControlWrites) = Len(dfu_validated)
        /\ CpOutstanding' => Len(ControlWrites') = Len(dfu_validated') + 1
        /\ (response_data' # response_data) =>
              /\ notify_handler
              /\ response_data' \in DfuNotifications
              /\ response_event'
              /\ UNCHANGED <<dfu_pc, cp_pc, dfu_response, dfu_offset, wd_data,
                             wd_offset, gatt_ops, dfu_validated, dfu_progress,
                             dfu_error, dfu_result>>
        /\ (dfu_response' # dfu_response) =>
              /\ cp_pc = "waiting"
              /\ cp_pc' = "idle"
              /\ dfu_response' = response_data
              /\ response_data' = response_data
      ]_vars

\* C19 witness: the handler overwrote the buffer with an unsolicited
\* notification while no request was outstanding, after two commands had
\* been answered
C19_Witness ==
    /\ ~CpOutstanding
    /\ Len(dfu_validated) = 2
    /\ Len(ControlWrites) = 2
    /\ response_event
    /\ response_data # dfu_response
    /\ dfu_error = "none"

(***************************************************************************)
(* Properties of parse_dfu_package                                         *)
(***************************************************************************)
\* the positions of the entries whose name ends in the suffix
EntriesEnding(suffix) ==
    {i \in 1..Len(zip_entries) : EndsWith(zip_entries[i].name, suffix)}

\* C20: on a container with one entry ending in .dat and one ending in
\* .bin the parser returns a package of exactly the bytes of these two
\* entries, whatever other entries there are; on a container with no entry
\* ending in .dat or none ending in .bin it raises the ValueError.
C20_Original ==
    parse_pc = "done" =>
        LET dats == EntriesEnding(DAT_SUFFIX)
            bins == EntriesEnding(BIN_SUFFIX)
        IN  /\ (Cardinality(dats) = 1 /\ Cardinality(bins) = 1) =>
                  /\ parse_result.outcome = "DfuPackage"
                  /\ \A i \in dats : parse_result.init_packet = zip_entries[i].content
                  /\ \A i \in bins : parse_result.firmware = zip_entries[i].content
            /\ (dats = {} \/ bins = {}) => parse_result.outcome = "ValueError"

\* C21: on a container that has an entry ending in .dat and an entry ending
\* in .bin the parser returns a package, also when the content of either is
\* empty: the presence of the entries decides.
C21_Original ==
    parse_pc = "done" =>
        ((EntriesEnding(DAT_SUFFIX) # {} /\ EntriesEnding(BIN_SUFFIX) # {})
            <=> parse_result.outcome = "DfuPackage")

\* the position of the last entry whose name ends in the suffix
LastEntryEnding(suffix) ==
    CHOOSE i \in EntriesEnding(suffix) : \A j \in EntriesEnding(suffix) : j <= i

RECURSIVE ConcatAll(_)
ConcatAll(s) == IF s = <<>> THEN <<>> ELSE Head(s) \o ConcatAll(Tail(s))

EspDataPayloads == [j \in 1..Len(EspDataWrites) |-> Payload(EspDataWrites[j])]
EspDataAcked == Len(SelectSeq(esp_validated, LAMBDA e : e = ECHO_DATA))

\* C30: the k-th DATA payload is the slice of the firmware at offset
\* 200 * (k - 1), at most 200 bytes long, so the payloads written so far
\* concatenate to a prefix of the firmware and, on a successful call, to the
\* firmware itself; the offset is the number of bytes in the acknowledged
\* DATA commands, and at the loop test every DATA command written has been
\* acknowledged.
C30_EspPayloadIntegrity ==
    LET N == Len(firmware_data)
        p == EspDataPayloads
        sent == ConcatAll(p)
    IN  /\ \A k \in 1..Len(p) :
              p[k] = SubSeq(firmware_data, ESP32_OTA_CHUNK_SIZE * (k - 1) + 1,
                            Min(ESP32_OTA_CHUNK_SIZE * k, N))
        /\ Len(sent) <= N
        /\ sent = SubSeq(firmware_data, 1, Len(sent))
        /\ EspDataAcked <= Len(p)
        /\ Len(p) <= EspDataAcked + 1
        /\ offset = SumLen(SubSeq(p, 1, EspDataAcked))
        /\ esp_pc = "loop" => offset = Len(sent)
        /\ esp_returned => sent = firmware_data

\* C30 witness: a successful call on 1000 bytes; the bytes repeat with
\* period 251, so the five chunks differ from each other
C30_Witness ==
    /\ esp_returned
    /\ Len(firmware_data) = 1000
    /\ Len(EspDataPayloads) = 5
    /\ ConcatAll(EspDataPayloads) = firmware_data
    /\ EspDataPayloads[1] # EspDataPayloads[2]
    /\ offset = 1000

\* C29: any two consecutive control-point commands carry different opcodes;
\* while a command is outstanding, no response that echoes the opcode of
\* the command before it passes validation against the opcode expected
\* now, whatever its result code; a call that returns such a response
\* raises and validates nothing.
C29_ConsecutiveOpcodesDiffer ==
    [][ LET cw == ControlWrites
        IN  /\ \A k \in 1..(Len(cw) - 1) : cw[k][1] # cw[k + 1][1]
            /\ (CpOutstanding /\ Len(cw) >= 2) =>
                  /\ DfuExpected(dfu_pc) = cw[Len(cw)][1]
                  /\ DfuExpected(dfu_pc) # cw[Len(cw) - 1][1]
                  /\ \A res \in DfuResults :
                        CheckDfuResponse(<<OP_RESPONSE, cw[Len(cw) - 1][1], res>>,
                                         DfuExpected(dfu_pc)) # "ok"
            /\ (/\ cp_pc = "waiting"
                /\ cp_pc' = "idle"
                /\ response_event
                /\ Len(cw) >= 2
                /\ Len(response_data) >= 2
                /\ response_data[2] = cw[Len(cw) - 1][1]) =>
                  /\ dfu_error' \notin {"none", "timeout", "cancelled"}
                  /\ dfu_validated' = dfu_validated
                  /\ dfu_pc' = "stop"
      ]_vars

\* C29 witness: the success response of the first object's EXECUTE came once
\* more while the second object's CREATE was outstanding, and the update
\* ended with the validation error
C29_Witness ==
    /\ dfu_pc = "exited"
    /\ dfu_result = "raised"
    /\ dfu_error = "wrong_opcode"
    /\ Len(ControlWrites) = 10
    /\ ControlWrites[9] = <<OP_EXECUTE>>
    /\ ControlWrites[10][1] = OP_CREATE
    /\ dfu_response = <<OP_RESPONSE, OP_EXECUTE, RES_SUCCESS>>
    /\ Len(dfu_validated) = 9

\* C28: the event is set exactly when a notification has been delivered
\* since the last control-point call cleared it, and the buffer then holds
\* the last one delivered; the completion of the GATT write changes neither,
\* so a notification delivered between the clear and that completion is
\* still there; a later delivery replaces an earlier one in the buffer; a
\* call that returns a response returns the last notification delivered
\* since its clear, and a call for which one was delivered never times out.
C28_ResponseIsLatestSinceClear ==
    [][ /\ response_event <=> last_delivered # <<>>
        /\ response_event => response_data = last_delivered
        /\ (cp_pc = "writing" /\ cp_pc' = "waiting") =>
              /\ response_event' = response_event
              /\ response_data' = response_data
        /\ last_delivered' \notin {<<>>, last_delivered} =>
              /\ response_data' = last_delivered'
              /\ response_event'
        /\ (cp_pc = "waiting" /\ cp_pc' = "idle"
              /\ dfu_error' \notin {"timeout", "cancelled"}) =>
              /\ last_delivered # <<>>
              /\ dfu_response' = last_delivered
        /\ (cp_pc = "waiting" /\ cp_pc' = "idle" /\ last_delivered # <<>>) =>
              /\ dfu_error' # "timeout"
              /\ dfu_response' = last_delivered
      ]_vars

\* C28 witness: the response to the outstanding command was delivered
\* after the clear and before write_gatt_char has returned
C28_Witness ==
    /\ cp_pc = "writing"
    /\ Len(ControlWrites) >= 2
    /\ response_event
    /\ last_delivered = <<OP_RESPONSE, ControlWrites[Len(ControlWrites)][1], RES_SUCCESS>>
    /\ response_data = last_delivered
    /\ dfu_response # last_delivered

(***************************************************************************)
(* C22: a DFU package with no .dat entry or no .bin entry is rejected      *)
(* before any BLE activity.  perform_dfu_update raises ValueError with no  *)
(* scan made, no connection attempted and no GATT operation; the NRF52840  *)
(* install path raises once parse_dfu_package has seen the download, with  *)
(* no BLE connection opened and no enter-DFU-mode command sent.            *)
(***************************************************************************)
HasEntryEnding(zf, suffix) ==
    \E i \in 1..Len(zf) : EndsWith(zf[i].name, suffix)
MissingRequiredEntry(zf) ==
    ~HasEntryEnding(zf, DAT_SUFFIX) \/ ~HasEntryEnding(zf, BIN_SUFFIX)
LogHas(log, event) == \E i \in 1..Len(log) : log[i] = event
InstBleEvents == {"ble_connect", "enter_dfu_mode", "ble_disconnect",
                  "perform_dfu_update", "perform_esp32_ota"}
InstNoBle == \A i \in 1..Len(inst_log) : inst_log[i] \notin InstBleEvents

C22_InvalidPackageNoBle ==
    /\ (dfu_pc # "idle" /\ MissingRequiredEntry(zip_entries)) =>
           /\ dfu_pc \in {"parse", "exited"}
           /\ ble_log = <<>>
           /\ gatt_ops = <<>>
           /\ ~connected
           /\ ~dfu_device.found
           /\ dfu_pc = "exited" => dfu_result = "raised" /\ dfu_error = "ValueError"
    /\ (LogHas(inst_log, "parse_dfu_package") /\ MissingRequiredEntry(inst_data)) =>
           /\ inst_pc = "raised"
           /\ inst_error = "invalid_package"
           /\ InstNoBle
           /\ installed_version = "1.0"
C22_Witness ==
    /\ dfu_pc = "exited"
    /\ dfu_error = "ValueError"
    /\ Len(zip_entries) > 0
    /\ MissingRequiredEntry(zip_entries)
\* the install path has rejected a download with a missing entry
C22_InstallRejects ==
    /\ inst_pc = "raised"
    /\ LogHas(inst_log, "parse_dfu_package")
    /\ Len(inst_data) > 0
    /\ MissingRequiredEntry(inst_data)

(***************************************************************************)
(* C23: the scan accepts an advertisement exactly when its service UUID    *)
(* list holds the DFU service UUID or its local name holds "dfu" in any    *)
(* mix of cases, and takes the first one accepted.  When none is accepted  *)
(* perform_dfu_update returns False after that one scan, with no           *)
(* connection attempted and no GATT operation, and the entity, given       *)
(* False, raises: the call ends with the guard released, the installed     *)
(* version as it was, and perform_dfu_update called once.                  *)
(***************************************************************************)
AdvertHasDfuUuid(adv) ==
    /\ adv.service_uuids # <<>>
    /\ \E i \in 1..Len(adv.service_uuids[1]) :
           adv.service_uuids[1][i] = "0000fe59-0000-1000-8000-00805f9b34fb"
AdvertNameHasDfu(adv) ==
    /\ adv.local_name # <<>>
    /\ \E i \in 1..(Len(adv.local_name[1]) - 2) :
           /\ adv.local_name[1][i] \in {"d", "D"}
           /\ adv.local_name[1][i + 1] \in {"f", "F"}
           /\ adv.local_name[1][i + 2] \in {"u", "U"}
AdvertAccepted(adv) == AdvertHasDfuUuid(adv) \/ AdvertNameHasDfu(adv)
LogCount(log, event) == Cardinality({i \in 1..Len(log) : log[i] = event})

C23_DiscoveryFilter ==
    [][ /\ (dfu_pc = "scan" /\ dfu_pc' # "scan") =>
               /\ dfu_device'.found <=> \E i \in 1..Len(adverts) : AdvertAccepted(adverts[i])
               /\ dfu_device'.found =>
                      \E i \in 1..Len(adverts) :
                          /\ dfu_device'.adv = adverts[i]
                          /\ AdvertAccepted(adverts[i])
                          /\ \A j \in 1..(i - 1) : ~AdvertAccepted(adverts[j])
               /\ ~dfu_device'.found => dfu_pc' = "exited" /\ dfu_result' = "false"
        /\ LogCount(ble_log', "scan") <= 1
        /\ dfu_result' = "false" =>
               /\ dfu_pc' = "exited"
               /\ ble_log' = <<"scan">>
               /\ gatt_ops' = <<>>
               /\ ~connected'
               /\ dfu_error' = "none"
        /\ LogHas(inst_log', "dfu_update_false") =>
               /\ inst_pc' = "raised"
               /\ inst_error' = "dfu_update_failed"
               /\ ~is_updating'
               /\ in_progress' = "False"
               /\ installed_version' = "1.0"
               /\ LogCount(inst_log', "perform_dfu_update") = 1
      ]_vars
\* a scan over two advertisements, neither accepted, has ended the update
C23_Witness ==
    /\ dfu_result = "false"
    /\ dfu_pc = "exited"
    /\ ble_log = <<"scan">>
\* the entity has raised on a False from perform_dfu_update
C23_EntityRaises ==
    /\ LogHas(inst_log, "dfu_update_false")
    /\ inst_pc = "raised"
\* a scan has accepted an advertisement by its name only
C23_AcceptedByName ==
    /\ dfu_device.found
    /\ AdvertNameHasDfu(dfu_device.adv)
    /\ ~AdvertHasDfuUuid(dfu_device.adv)

(***************************************************************************)
(* C25: async_install selects the engine from the IC type alone.  As       *)
(* stated for every call (C25_Original): at the end of a call the Nordic   *)
(* path has run exactly when ic_type is 1, the ESP32 path exactly when it  *)
(* is 2, 3 or 4, never both, and with any other or no ic_type the call     *)
(* has raised with nothing downloaded and no BLE activity.                 *)
(* As it holds (C25_EngineByIcType): the same for a call that passes the   *)
(* re-entrancy guard and has a target version; a call made while an update *)
(* is in progress returns, and one with no target version raises, before   *)
(* the selection, with no path entered.  A path is entered at most once,   *)
(* and only the path entered makes that path's calls.                      *)
(***************************************************************************)
InstNrfEvents == {"_install_nrf52840", "parse_dfu_package", "enter_dfu_mode",
                  "perform_dfu_update", "dfu_update_true", "dfu_update_false",
                  "dfu_update_raised"}
InstEspEvents == {"_install_esp32", "perform_esp32_ota"}
InstNrfRan == \E i \in 1..Len(inst_log) : inst_log[i] \in InstNrfEvents
InstEspRan == \E i \in 1..Len(inst_log) : inst_log[i] \in InstEspEvents
InstCallEnded == inst_pc \in {"returned", "raised"}
InstKnownIcTypes == {1, 2, 3, 4}

C25_Original ==
    InstCallEnded =>
        /\ InstNrfRan <=> ic_type = 1
        /\ InstEspRan <=> ic_type \in {2, 3, 4}
        /\ ~(InstNrfRan /\ InstEspRan)
        /\ ic_type \notin InstKnownIcTypes =>
               inst_pc = "raised" /\ inst_log = <<>>

C25_EngineByIcType ==
    [][ /\ (inst_pc = "call" /\ inst_pc' # "call") =>
               IF is_updating
               THEN inst_pc' = "returned" /\ inst_log' = <<>> /\ inst_error' = "none"
               ELSE IF inst_version = "None" /\ latest_version = "None"
               THEN /\ inst_pc' = "raised" /\ inst_log' = <<>>
                    /\ inst_error' = "no_target_version"
               ELSE /\ inst_log' = <<"_install_nrf52840">> <=> ic_type = 1
                    /\ inst_log' = <<"_install_esp32">> <=> ic_type \in {2, 3, 4}
                    /\ ic_type \notin InstKnownIcTypes =>
                           /\ inst_pc' = "raised"
                           /\ inst_error' = "unknown_ic_type"
                           /\ inst_log' = <<>>
        /\ ic_type' = ic_type
        /\ ~(InstNrfRan' /\ InstEspRan')
        /\ InstNrfRan' => inst_log'[1] = "_install_nrf52840" /\ ic_type' = 1
        /\ InstEspRan' => inst_log'[1] = "_install_esp32" /\ ic_type' \in {2, 3, 4}
        /\ LogCount(inst_log', "_install_nrf52840")
               + LogCount(inst_log', "_install_esp32") <= 1
        /\ (inst_pc = "raised" /\ inst_error = "unknown_ic_type") =>
               /\ inst_log = <<>>
               /\ inst_pc' = "raised"
               /\ inst_log' = <<>>
        /\ (inst_pc' = "returned" /\ inst_log' # <<>>) =>
               \/ ic_type = 1 /\ LogHas(inst_log', "dfu_update_true")
               \/ ic_type \in {2, 3, 4} /\ LogHas(inst_log', "perform_esp32_ota")
      ]_vars
\* a call with an IC type outside 1..4 has raised at the selection
C25_Witness ==
    /\ inst_pc = "raised"
    /\ inst_error = "unknown_ic_type"
    /\ ic_type = 5
\* a call with no IC type has raised at the selection
C25_MissingIcType ==
    /\ inst_pc = "raised"
    /\ inst_error = "unknown_ic_type"
    /\ ic_type = IC_NONE
\* each path has run to the end
C25_NrfCompleted == inst_pc = "returned" /\ InstNrfRan /\ installed_version = "1.2"
C25_EspCompleted == inst_pc = "returned" /\ InstEspRan /\ ic_type = 4

(***************************************************************************)
(* C26: compute_changes partitions the type ids.  For the definitions      *)
(* parsed from the file and the definitions given to a run: added holds    *)
(* the ids only in the new ones, removed the ids only in the current ones, *)
(* modified the ids in both whose rendered line differs from the current   *)
(* line; each list is strictly ascending, no id is in two lists, and all   *)
(* three are empty when every current line is the rendered line of the     *)
(* same id.                                                                *)
(***************************************************************************)
ListSet(list) == {list[i] : i \in 1..Len(list)}
Ascending(list) == \A i \in 1..(Len(list) - 1) : list[i] < list[i + 1]
TagRunStep == tags_pc = "ready" /\ main_runs' = main_runs + 1 /\ tags_pc' = "ready"

C26_ChangesPartition ==
    [][ TagRunStep =>
            LET current == parse_current_definitions(tag_types_py)
                new == input_file'
            IN  /\ ListSet(added') = DOMAIN new \ DOMAIN current
                /\ ListSet(removed') = DOMAIN current \ DOMAIN new
                /\ ListSet(modified') =
                       {id \in DOMAIN new \cap DOMAIN current :
                           NewLine(id, new[id]) # current[id]}
                /\ Ascending(added')
                /\ Ascending(removed')
                /\ Ascending(modified')
                /\ ListSet(added') \cap ListSet(removed') = {}
                /\ ListSet(added') \cap ListSet(modified') = {}
                /\ ListSet(removed') \cap ListSet(modified') = {}
                /\ (/\ DOMAIN new = DOMAIN current
                    /\ \A id \in DOMAIN new : current[id] = NewLine(id, new[id])) =>
                       added' = <<>> /\ removed' = <<>> /\ modified' = <<>>
      ]_vars
\* a run has found an id added, an id removed and an id modified
C26_Witness ==
    /\ main_runs = 1
    /\ added = <<2>>
    /\ removed = <<17>>
    /\ modified = <<100>>
\* a run has listed two ids, the smaller first though it has more digits
\* than the digits of the larger would sort before
C26_NumericOrder == added = <<2, 17, 100>>

(***************************************************************************)
(* C27: the sync is idempotent.  A run of main() that follows a run given  *)
(* the same definitions reports changed=false, with no id added, removed   *)
(* or modified, and leaves every line of the file as it is.  A run given   *)
(* an id that the definitions in the file do not have reports changed=true *)
(* and the file then holds the line of that id.                            *)
(***************************************************************************)
FileHasEntry(file, id, data) ==
    \E i \in 1..Len(file) : file[i] = FallbackLine(id, data)

C27_SyncIdempotent ==
    [][ TagRunStep =>
            /\ (main_runs >= 1 /\ input_file' = input_file) =>
                   /\ ~changed'
                   /\ added' = <<>> /\ removed' = <<>> /\ modified' = <<>>
                   /\ tag_types_py' = tag_types_py
            /\ \A id \in DOMAIN input_file' :
                   (\/ id \notin DOMAIN parse_current_definitions(tag_types_py)
                    \/ main_runs >= 1 /\ id \notin DOMAIN input_file) =>
                       /\ changed'
                       /\ id \in ListSet(added')
                       /\ FileHasEntry(tag_types_py', id, input_file'[id])
      ]_vars
\* a second run with the definitions of the first has reported no change
C27_Witness ==
    /\ main_runs = 2
    /\ ~changed
    /\ DOMAIN input_file = {2, 17, 100}
    /\ FileHasEntry(tag_types_py, 100, input_file[100])
\* a second run has added an id to the definitions of the first
C27_AddedOnSecondRun ==
    /\ main_runs = 2
    /\ changed
    /\ added = <<17>>

(***************************************************************************)
(* C31: the packets written to the data characteristic carry the init      *)
(* packet and the firmware byte for byte.  Every packet follows a CREATE   *)
(* or another packet, so it lies between a CREATE and the CALCULATE_CRC of *)
(* that object, and while packets are the last thing written the CREATE    *)
(* before them has validated.  The packets after CREATE(COMMAND) make a    *)
(* prefix of the init packet and, once its CALCULATE_CRC is written, the   *)
(* init packet; the packets after SELECT(DATA) make a prefix of the        *)
(* firmware, each the slice at the offset of the bytes written before it,  *)
(* and on a successful update their concatenation is the firmware.         *)
(***************************************************************************)
\* the packets written after the sixth command, SELECT(DATA)
DataPhasePackets ==
    LET from == ControlWriteIndex(6)
        w == SelectSeq(SubSeq(gatt_ops, from + 1, Len(gatt_ops)), IsPacketWrite)
    IN  [k \in 1..Len(w) |-> w[k].data]
\* offs[k]: the bytes in the first k - 1 of the packets
RECURSIVE PacketOffsets(_)
PacketOffsets(packets) ==
    IF Len(packets) = 0 THEN <<>>
    ELSE LET before == PacketOffsets(SubSeq(packets, 1, Len(packets) - 1))
         IN  IF Len(before) = 0 THEN <<0>>
             ELSE Append(before, before[Len(before)]
                                     + Len(packets[Len(packets) - 1]))
SlicesOf(packets, data) ==
    LET offs == PacketOffsets(packets)
    IN  \A k \in 1..Len(packets) :
            /\ offs[k] + Len(packets[k]) <= Len(data)
            /\ packets[k] = SubSeq(data, offs[k] + 1, offs[k] + Len(packets[k]))

C31_PacketsCarryTheImage ==
    LET cw == ControlWrites
    IN  /\ \A k \in 1..Len(gatt_ops) :
               IsPacketWrite(gatt_ops[k]) =>
                   /\ k > 1
                   /\ \/ IsPacketWrite(gatt_ops[k - 1])
                      \/ /\ IsControlWrite(gatt_ops[k - 1])
                         /\ gatt_ops[k - 1].data[1] = OP_CREATE
        /\ (Len(gatt_ops) > 0 /\ IsPacketWrite(gatt_ops[Len(gatt_ops)])) =>
               /\ Len(cw) = Len(dfu_validated)
               /\ dfu_validated[Len(dfu_validated)] = OP_CREATE
        /\ \A i \in 1..Len(gatt_ops) :
               IsCreate(gatt_ops[i], OBJ_COMMAND) =>
                   /\ SlicesOf(PacketRun(i), init_packet)
                   /\ PacketRunClosed(i) => ConcatAll(PacketRun(i)) = init_packet
        /\ Len(cw) >= 6 => SlicesOf(DataPhasePackets, firmware)
        /\ dfu_result = "true" => ConcatAll(DataPhasePackets) = firmware
\* C31 witness: 5000 bytes have gone out in 26 packets of two objects, after
\* an init packet of one
C31_Witness ==
    /\ dfu_result = "true"
    /\ Len(firmware) = 5000
    /\ Len(DataPhasePackets) = 26
    /\ DataPhasePackets[22] = SubSeq(firmware, 4097, 4296)
\* an init packet of 4097 bytes has gone out in 21 packets
C31_LongInitPacket ==
    /\ dfu_result = "true"
    /\ Len(init_packet) = 4097
    /\ \E i \in 1..Len(gatt_ops) :
           IsCreate(gatt_ops[i], OBJ_COMMAND) /\ Len(PacketRun(i)) = 21

(***************************************************************************)
(* C32: one installation at a time.  A call of async_install made while    *)
(* another is at an await finds the guard set and returns: the guard, the  *)
(* in-progress attribute, the installed version, the call log (no lookup,  *)
(* download or BLE event is added) and the position of the running call    *)
(* are as before, and no second call ever gets past the guard.  The guard  *)
(* stays set for as long as the running call is at an await.  The same     *)
(* holds of a call that finds the guard set when it starts.                *)
(***************************************************************************)
C32_SecondCallReturns ==
    [][ /\ (second_call = "none" /\ second_call' # "none") =>
               /\ is_updating
               /\ second_call' = "returned"
               /\ UNCHANGED <<is_updating, in_progress, installed_version, inst_log,
                              inst_data, inst_pc, target_version, inst_error>>
        /\ second_call' # "entered"
        /\ inst_pc' \in InstAwaits => is_updating'
        /\ (inst_pc = "call" /\ is_updating /\ inst_pc' # "call") =>
               /\ inst_pc' = "returned"
               /\ UNCHANGED <<is_updating, in_progress, installed_version, inst_log,
                              inst_data, target_version, inst_error>>
      ]_vars
\* a second call has returned at the guard and the first has then completed
C32_Witness ==
    /\ second_call = "returned"
    /\ inst_pc = "returned"
    /\ installed_version = "1.2"
    /\ ~is_updating
\* a second call has returned while the engine was reporting progress
C32_DuringTransfer ==
    /\ second_call = "returned"
    /\ inst_pc = "nrf_update"
    /\ in_progress = "81"
    /\ is_updating

(***************************************************************************)
(* C33: the guard is released on every exit of a call that passed it.  The *)
(* step that ends such a call, by completion, by a raised error or by the  *)
(* cancellation of its task, leaves _is_updating False, and it stays False *)
(* from then on, so the test of the guard by a later call fails.           *)
(***************************************************************************)
InstEnded == inst_pc \in {"returned", "raised", "cancelled"}
\* the call got past the guard: it raised, was cancelled, or made calls
InstPassedGuard ==
    inst_pc \in InstAwaits \cup {"raised", "cancelled"}
        \/ (inst_pc = "returned" /\ inst_log # <<>>)

C33_GuardReleased ==
    [][ /\ (inst_pc = "call" /\ ~is_updating /\ inst_pc' # "call") =>
               /\ inst_pc' \in InstAwaits \cup {"raised"}
               /\ is_updating' <=> inst_pc' \in InstAwaits
        /\ (inst_pc \in InstAwaits /\ inst_pc' \notin InstAwaits) =>
               /\ inst_pc' \in {"returned", "raised", "cancelled"}
               /\ ~is_updating'
        /\ (InstEnded' /\ InstPassedGuard') => ~is_updating'
      ]_vars
\* the task has been cancelled during the transfer and the guard is free
C33_Witness ==
    /\ inst_pc = "cancelled"
    /\ LogHas(inst_log, "perform_dfu_update")
    /\ ~is_updating
\* the call has raised before its first await and the guard is free
C33_RaisedAtOnce ==
    /\ inst_pc = "raised"
    /\ inst_error = "no_target_version"
    /\ ~is_updating

(***************************************************************************)
(* C34: the installed version becomes the target version only when the     *)
(* engine selected has completed: perform_dfu_update has returned True or  *)
(* perform_esp32_ota has returned, and the call itself has returned.  On   *)
(* every other exit, and while the call runs, it is as it was.             *)
(***************************************************************************)
InstFailures == {"no_target_version", "unknown_ic_type", "asset_not_found",
                 "download_failed", "invalid_package", "dfu_mode_rejected",
                 "ble_error", "dfu_update_failed", "dfu_update_error",
                 "empty_firmware", "esp_ota_error", "CancelledError"}

C34_InstalledOnlyOnSuccess ==
    /\ installed_version # "1.0" =>
           /\ inst_pc = "returned"
           /\ inst_error = "none"
           /\ installed_version = target_version
           /\ target_version \in {"1.2", "1.3"}
           /\ \/ LogHas(inst_log, "dfu_update_true")
              \/ LogHas(inst_log, "esp32_ota_returned")
    /\ (inst_pc = "returned" /\ inst_log # <<>>) => installed_version = target_version
    /\ inst_pc \in {"raised", "cancelled"} =>
           /\ inst_error \in InstFailures
           /\ installed_version = "1.0"
    /\ inst_error # "none" => inst_pc \in {"raised", "cancelled"}
\* the bootloader was not found: the call has raised with the version kept
C34_Witness ==
    /\ inst_pc = "raised"
    /\ inst_error = "dfu_update_failed"
    /\ installed_version = "1.0"
    /\ target_version = "1.3"
\* the Nordic path has completed and the version is the target
C34_Installed ==
    /\ inst_pc = "returned"
    /\ installed_version = "1.3"
    /\ LogHas(inst_log, "dfu_update_true")

(***************************************************************************)
(* C35: when a call of async_install that passed the guard has ended, by   *)
(* return, by a raised error or by the cancellation of its task, the       *)
(* in-progress attribute is False.                                         *)
(***************************************************************************)
C35_Original ==
    (InstEnded /\ InstPassedGuard) => in_progress = "False"
\* what holds: the attribute is False after a return and after an error
\* that is an Exception
C35_ClearedUnlessCancelled ==
    (inst_pc \in {"returned", "raised"} /\ InstPassedGuard) => in_progress = "False"
\* the task was cancelled during the transfer: the attribute keeps the
\* percentage
C35_LeftAtPercentage ==
    /\ inst_pc = "cancelled"
    /\ in_progress = "81"
    /\ ~is_updating

(***************************************************************************)
(* C36: the steps of the NRF52840 path come in one order and each gates    *)
(* the next.  The calls made are a prefix of: asset lookup, download,      *)
(* parse_dfu_package, BLE connect, enter_dfu_mode with its answer, BLE     *)
(* disconnect, perform_dfu_update with its outcome.  The download is       *)
(* parsed only if it succeeded, the connection is opened only for a valid  *)
(* package and is closed before perform_dfu_update is called, and          *)
(* perform_dfu_update is called only if the device accepted the command:   *)
(* after a rejection the call has raised with no transfer attempted.       *)
(***************************************************************************)
IsPrefix(s, t) == Len(s) <= Len(t) /\ s = SubSeq(t, 1, Len(s))
InstNrfSteps(answer, outcome) ==
    <<"_install_nrf52840", "asset_lookup", "download", "parse_dfu_package",
      "ble_connect", "enter_dfu_mode", answer, "ble_disconnect",
      "perform_dfu_update", outcome>>
LogIndex(log, event) == CHOOSE i \in 1..Len(log) : log[i] = event

C36_NrfStepsGated ==
    InstNrfRan =>
        /\ \E answer \in {"dfu_mode_accepted", "dfu_mode_rejected", "dfu_mode_error"},
              outcome \in {"dfu_update_true", "dfu_update_false", "dfu_update_raised"} :
               IsPrefix(inst_log, InstNrfSteps(answer, outcome))
        /\ LogHas(inst_log, "parse_dfu_package") =>
               inst_error # "download_failed"
        /\ LogHas(inst_log, "ble_connect") =>
               /\ parse_dfu_package(inst_data).outcome = "DfuPackage"
               /\ LogHas(inst_log, "ble_disconnect")
        /\ LogHas(inst_log, "perform_dfu_update") =>
               /\ LogHas(inst_log, "dfu_mode_accepted")
               /\ LogIndex(inst_log, "ble_disconnect")
                      < LogIndex(inst_log, "perform_dfu_update")
               /\ inst_pc # "nrf_sleep"
        /\ inst_pc = "nrf_sleep" => LogHas(inst_log, "dfu_mode_accepted")
        /\ (LogHas(inst_log, "dfu_mode_rejected") \/ LogHas(inst_log, "dfu_mode_error")) =>
               /\ inst_pc = "raised"
               /\ inst_error \in {"dfu_mode_rejected", "ble_error"}
               /\ ~LogHas(inst_log, "perform_dfu_update")
               /\ inst_log[Len(inst_log)] = "ble_disconnect"
\* the device has rejected the command and the call has raised
C36_Witness ==
    /\ inst_pc = "raised"
    /\ inst_error = "dfu_mode_rejected"
    /\ LogHas(inst_log, "dfu_mode_rejected")
\* all the steps have been made, in their order
C36_AllSteps ==
    inst_log = InstNrfSteps("dfu_mode_accepted", "dfu_update_true")

(***************************************************************************)
(* C37: the ESP32 path rejects an empty download before it opens the BLE   *)
(* connection: the call raises with no BLE event logged, and whenever the  *)
(* connection has been opened or perform_esp32_ota called, the image held  *)
(* is not empty.                                                           *)
(***************************************************************************)
C37_EmptyImageRejected ==
    /\ inst_error = "empty_firmware" =>
           /\ inst_pc = "raised"
           /\ inst_data = <<>>
           /\ InstNoBle
           /\ inst_log = <<"_install_esp32", "asset_lookup", "download">>
    /\ (InstEspRan /\ (LogHas(inst_log, "ble_connect")
                          \/ LogHas(inst_log, "perform_esp32_ota"))) =>
           Len(inst_data) > 0
    /\ (InstEspRan /\ inst_pc \in {"esp_ota", "esp_reboot"}) => Len(inst_data) > 0
    /\ (InstEspRan /\ LogHas(inst_log, "download") /\ inst_data = <<>>) =>
           inst_pc \in {"raised", "cancelled"}
\* an empty image has been downloaded and rejected
C37_Witness ==
    /\ inst_error = "empty_firmware"
    /\ inst_pc = "raised"
    /\ ic_type = 3
\* an image of one byte has been handed to the engine
C37_OneByte ==
    /\ LogHas(inst_log, "perform_esp32_ota")
    /\ Len(inst_data) = 1

(***************************************************************************)
(* C38: the discovery filter looks at the advertisement only.  For every   *)
(* device address and every mac_address the filter's answer is that of the *)
(* test of the service UUIDs and the local name, so the scan finds the     *)
(* first advertisement accepted whichever device sent it, and the update   *)
(* goes on to connect to it also when its address is not mac_address.      *)
(***************************************************************************)
C38_FilterIgnoresAddress ==
    [][ (dfu_pc = "scan" /\ dfu_pc' # "scan") =>
            LET accepted == {i \in 1..Len(adverts) : AdvertAccepted(adverts[i])}
            IN  /\ \A i \in 1..Len(adverts), d \in 1..Len(adverts) :
                       MatchDfuDevice(DeviceAddress(d), adverts[i])
                           <=> i \in accepted
                /\ dfu_device'.found <=> accepted # {}
                /\ dfu_device'.found =>
                       /\ \E i \in accepted :
                              /\ \A j \in accepted : i <= j
                              /\ dfu_device'.address = DeviceAddress(i)
                              /\ dfu_device'.adv = adverts[i]
                       /\ dfu_pc' = "connect"
                /\ mac_address' = mac_address
      ]_vars
\* the device asked for advertises first, without the DFU service or name,
\* and the scan has taken the second device
C38_Witness ==
    /\ dfu_pc = "connect"
    /\ dfu_device.found
    /\ mac_address = DeviceAddress(1)
    /\ dfu_device.address = DeviceAddress(2)
\* the scan has taken the device asked for
C38_OwnDevice ==
    /\ dfu_pc = "connect"
    /\ dfu_device.found
    /\ dfu_device.address = mac_address

(***************************************************************************)
(* C39.  async_update contacts GitHub only when no successful check lies   *)
(* within the last CACHE_DURATION (6 hours), and a poll that does not      *)
(* contact GitHub has such a check behind it.  The time of a check is the  *)
(* time at which its call began.  A successful check records that time     *)
(* together with the latest version; a failed request or a response        *)
(* without a tag leaves both as they were, so the next poll tries again.   *)
(***************************************************************************)
RecentSuccess ==
    \E k \in 1..Len(checks) :
        /\ checks[k].result = "ok"
        /\ utcnow - checks[k].at < CACHE_DURATION

C39_ChecksCached ==
    [][/\ (Len(checks') > Len(checks)) => ~RecentSuccess
       /\ (polls' > polls /\ Len(checks') = Len(checks)) => RecentSuccess
       /\ (upd_pc = "request" /\ upd_pc' = "ready") =>
              IF checks'[Len(checks')].result = "ok"
              THEN /\ last_checked' = checks'[Len(checks')].at
                   /\ latest_version' = checks'[Len(checks')].version
                   /\ latest_version' # "None"
              ELSE /\ checks'[Len(checks')].result \in {"failed", "no_tag"}
                   /\ last_checked' = last_checked
                   /\ latest_version' = latest_version]_vars

\* a request failed, the next poll asked again and succeeded, and a third
\* poll within six hours was answered from the cache
C39_Witness ==
    /\ Len(checks) = 2
    /\ polls = 3
    /\ upd_pc = "ready"
    /\ checks[1].result \in {"failed", "no_tag"}
    /\ checks[2].result = "ok"
    /\ utcnow - checks[2].at < CACHE_DURATION
    /\ last_checked = checks[2].at
    /\ latest_version = "1.3"

\* a second request exactly six hours after a successful check
C39_AfterSixHours ==
    /\ Len(checks) = 2
    /\ checks[1].result = "ok"
    /\ checks[2].at - checks[1].at = CACHE_DURATION

C40_RemovalPending ==
    /\ setup_pc = "listening"
    /\ labs_enabled
    /\ added_entity = 2
    /\ removal_tasks = {1}
    /\ platform_entities = {1, 2}

====
